---- MODULE Spec2Model ----
(***************************************************************************)
(* A model of Triton's symbolic-AST core:                                  *)
(*   - the node arena, AstGarbageCollector (astGarbageCollector.cpp);      *)
(*   - the solver-AST translator, TritonToZ3Ast::convert, in its           *)
(*     frame-stack form (tritonToZ3Ast.New.cpp) and its legacy form        *)
(*     (tritonToZ3Ast.cpp).                                                *)
(* Spec is the arena's state machine, SpecZ3 the translator's.             *)
(***************************************************************************)
EXTENDS Integers, Sequences, FiniteSets, TLC

(***************************************************************************)
(* Bounds of the arena model.                                              *)
(***************************************************************************)
\* Node addresses the arena model ranges over.
MaxNodes == 2
\* Arena objects besides the first one (arena 0).
MaxBackups == 1
\* Operations in one run of the arena.
MaxOps == 4
\* Entries a work stack of the translator can hold before its push fails for
\* lack of memory (std::bad_alloc).
MaxStack == 12

Node == 1..MaxNodes
Arena == 0..MaxBackups
\* Keys of the variable map.
Names == {"x", "y"}
\* nullptr.
NoNode == 0
NoArena == -1

VARIABLES
  exists,          \* the arena objects that are constructed and not destructed
  allocatedNodes,  \* AstGarbageCollector::allocatedNodes, per arena
  variableNodes,   \* AstGarbageCollector::variableNodes, per arena
  backupFlag,      \* AstGarbageCollector::backupFlag, per arena
  delCount,        \* per node: how often `delete` was applied to it (2 = more than once)
  deleted,         \* the nodes the latest operation applied `delete` to
  op,              \* the latest operation, its receiver and its arguments
  snap,            \* history: per arena made by copy construction, what it copied
  recorded,        \* history: the nodes that were ever in a live set
  registered,      \* history: the names that were ever a key of a variable map
  steps            \* the number of operations made so far

VARIABLES
  dag,             \* the expression graph: node address -> node (kind, children, payload)
  root,            \* the node convert is called with (NoNode: nullptr)
  impl,            \* "new": tritonToZ3Ast.New.cpp, "legacy": tritonToZ3Ast.cpp
  isEval,          \* TritonToZ3Ast::isEval
  pc,              \* where convert is: "construct", "call", "fill", "lower", "legacy", "return", "done", "error"
  workstack,       \* fillWorkStack's stack of (node, child index) frames
  visitVector,     \* convert's visitVector, the result of fillWorkStack
  pos,             \* the index of the range-for over visitVector
  workStack,       \* the legacy convert's stack of nodes
  curNode,         \* the legacy convert's `node`
  z3expressions,   \* convert's memo: node -> solver handle
  symbols,         \* TritonToZ3Ast::symbols
  result,          \* what convert returned
  err,             \* the exception convert left with, "" when none
  symbolicEngine,  \* the constructor's symbolicEngine argument ("nullptr" when null)
  lowered,         \* history: the nodes the switch was entered for, in order
  calls            \* history: node -> the dispatches of it that called a solver constructor

z3Vars == <<dag, root, impl, isEval, pc, workstack, visitVector, pos, workStack, curNode,
            z3expressions, symbols, result, err, symbolicEngine, lowered, calls>>

VARIABLES
  uniqueNodes      \* the caller's set that extractUniqueAstNodes fills

VARIABLES
  operands,        \* the two operands of the instruction a builder processes
  regValue,        \* the bits of the register operand, bit 0 first
  memValue,        \* the bits read at the memory operand, bit 0 first
  symbolicReg,     \* register -> the expression createRegSE assigned to it
  symbolicMem,     \* address -> the expression createMemSE assigned to it
  apCalls,         \* history: the expression and taint calls made on the AnalysisProcessor
  irpc             \* "idle", "process", then "done" or "stopped" (the exception)

irVars == <<operands, regValue, memValue, symbolicReg, symbolicMem, apCalls, irpc>>

exVars == <<uniqueNodes, irVars>>

gcVars == <<exists, allocatedNodes, variableNodes, backupFlag, delCount, deleted,
            op, snap, recorded, registered, steps>>

(***************************************************************************)
(* The node model, as far as the arena reads it: freeAstNodes reads a      *)
(* node's kind and, of a VARIABLE node, its variable name.  Odd addresses   *)
(* hold VARIABLE nodes, named "x" and "y" in turn (1: "x", 3: "y", ...),   *)
(* even addresses hold nodes of another kind.                              *)
(***************************************************************************)
getKind(n) == IF n % 2 = 0 THEN "BVADD_NODE" ELSE "VARIABLE_NODE"

getVarName(n) == IF n % 4 = 1 THEN "x" ELSE "y"

(***************************************************************************)
(* std::map as a function whose domain is the set of keys.                 *)
(***************************************************************************)
EmptyMap == [k \in {} |-> NoNode]

\* std::map::operator[] followed by assignment: overwrites a present key.
MapAssign(m, k, v) == [x \in DOMAIN m \cup {k} |-> IF x = k THEN v ELSE m[x]]

\* Mutant of MapEmplace: the insertion overwrites a present key.
emplaceOverwrite(m, k, v) == MapAssign(m, k, v)

\* std::map::emplace: inserts only when the key is absent.
MapEmplace(m, k, v) == [x \in DOMAIN m \cup {k} |-> IF x \in DOMAIN m THEN m[x] ELSE v]

(***************************************************************************)
(* The heap.  A pointer is valid while its node was never deleted.         *)
(* Deleting a node a second time is undefined behaviour: the count records *)
(* it and the run ends there (no operation is modelled after it).          *)
(***************************************************************************)
Valid(n) == delCount[n] = 0

Running == (\A n \in Node : delCount[n] < 2) /\ steps < MaxOps

\* `delete *it` for every node of S.
DeleteNodes(S) ==
  /\ delCount' = [n \in Node |-> IF n \in S /\ delCount[n] < 2
                                   THEN delCount[n] + 1 ELSE delCount[n]]
  /\ deleted' = S
  /\ steps' = steps + 1

Call(name, a, other, n, nodes, key, res) ==
  [name |-> name, arena |-> a, other |-> other, node |-> n, nodes |-> nodes,
   key |-> key, result |-> res, ret |-> NoNode, nodesAfter |-> nodes,
   map |-> EmptyMap]

NoSnap ==
  [src |-> NoArena, alloc |-> {}, live |-> {}, vars |-> EmptyMap, added |-> {},
   clean |-> FALSE]

\* History: an operation on arena a ends the "only record calls on the source
\* since the copy" period of a itself and, unless it is such a record call
\* (keeps), of every copy made of a.
Touch(a, keeps) ==
  [b \in Arena |->
     IF snap[b].src # NoArena /\ (b = a \/ (snap[b].src = a /\ ~keeps))
       THEN [snap[b] EXCEPT !.clean = FALSE, !.alloc = {}, !.vars = EmptyMap,
                            !.added = {}]
       ELSE snap[b]]

(***************************************************************************)
(* AstGarbageCollector(bool isBackup)                                      *)
(***************************************************************************)
AstGarbageCollector(isBackup) ==
  [allocatedNodes |-> {}, variableNodes |-> EmptyMap, backupFlag |-> isBackup]

InitGC ==
  /\ exists = {0}
  /\ allocatedNodes = [a \in Arena |-> AstGarbageCollector(FALSE).allocatedNodes]
  /\ variableNodes = [a \in Arena |-> AstGarbageCollector(FALSE).variableNodes]
  /\ backupFlag = [a \in Arena |-> AstGarbageCollector(FALSE).backupFlag]
  /\ delCount = [n \in Node |-> 0]
  /\ deleted = {}
  /\ op = Call("construct", 0, NoArena, NoNode, {}, "", "ok")
  /\ snap = [a \in Arena |-> NoSnap]
  /\ recorded = {}
  /\ registered = {}
  /\ steps = 0

\* Mutant of copy: every tracked node is deleted, also one other tracks.
copyDeleteAll(this, other) ==
  /\ DeleteNodes(allocatedNodes[this])
  /\ allocatedNodes' = [allocatedNodes EXCEPT ![this] = allocatedNodes[other]]
  /\ backupFlag' = [backupFlag EXCEPT ![this] = TRUE]
  /\ variableNodes' = [variableNodes EXCEPT ![this] = variableNodes[other]]

\* Mutant of copy: the nodes other does not track are not deleted.
copyNoDelete(this, other) ==
  /\ DeleteNodes({})
  /\ allocatedNodes' = [allocatedNodes EXCEPT ![this] = allocatedNodes[other]]
  /\ backupFlag' = [backupFlag EXCEPT ![this] = TRUE]
  /\ variableNodes' = [variableNodes EXCEPT ![this] = variableNodes[other]]

\* Mutant of copy: the variable map is not assigned.
copyKeepVariables(this, other) ==
  /\ DeleteNodes({n \in allocatedNodes[this] : n \notin allocatedNodes[other]})
  /\ allocatedNodes' = [allocatedNodes EXCEPT ![this] = allocatedNodes[other]]
  /\ backupFlag' = [backupFlag EXCEPT ![this] = TRUE]
  /\ UNCHANGED variableNodes

(***************************************************************************)
(* void AstGarbageCollector::copy(const AstGarbageCollector& other)        *)
(***************************************************************************)
copy(this, other) ==
  /\ DeleteNodes({n \in allocatedNodes[this] : n \notin allocatedNodes[other]})
  /\ allocatedNodes' = [allocatedNodes EXCEPT ![this] = allocatedNodes[other]]
  /\ backupFlag' = [backupFlag EXCEPT ![this] = TRUE]
  /\ variableNodes' = [variableNodes EXCEPT ![this] = variableNodes[other]]

\* The copy constructor, snapshot(): a new arena object b made from other.
Snapshot(b, other) ==
  /\ Running
  /\ UNCHANGED <<z3Vars, exVars>>
  /\ other \in exists
  /\ b \notin exists
  /\ exists' = exists \cup {b}
  /\ copy(b, other)
  /\ op' = Call("snapshot", b, other, NoNode, {}, "", "ok")
  /\ snap' = [snap EXCEPT ![b] = [src |-> other,
                                  alloc |-> allocatedNodes[other],
                                  live |-> {n \in allocatedNodes[other] : Valid(n)},
                                  vars |-> variableNodes[other],
                                  added |-> {},
                                  clean |-> TRUE]]
  /\ UNCHANGED <<recorded, registered>>

\* operator=, restore(other): this arena assigned from another one.
Restore(this, other) ==
  /\ Running
  /\ UNCHANGED <<z3Vars, exVars>>
  /\ this \in exists
  /\ other \in exists
  /\ this # other
  /\ copy(this, other)
  /\ op' = Call("restore", this, other, NoNode, {}, "", "ok")
  /\ snap' = [Touch(this, FALSE) EXCEPT ![this] = NoSnap]
  /\ UNCHANGED <<exists, recorded, registered>>

\* Mutant of freeAllAstNodes: the variable map is not cleared.
freeAllKeepVariables(this) ==
  /\ DeleteNodes(allocatedNodes[this])
  /\ UNCHANGED variableNodes
  /\ allocatedNodes' = [allocatedNodes EXCEPT ![this] = {}]

(***************************************************************************)
(* void AstGarbageCollector::freeAllAstNodes(void)                         *)
(***************************************************************************)
freeAllAstNodes(this) ==
  /\ DeleteNodes(allocatedNodes[this])
  /\ variableNodes' = [variableNodes EXCEPT ![this] = EmptyMap]
  /\ allocatedNodes' = [allocatedNodes EXCEPT ![this] = {}]

FreeAll(this) ==
  /\ Running
  /\ UNCHANGED <<z3Vars, exVars>>
  /\ this \in exists
  /\ freeAllAstNodes(this)
  /\ op' = Call("free_all", this, NoArena, NoNode, {}, "", "ok")
  /\ snap' = Touch(this, FALSE)
  /\ UNCHANGED <<exists, backupFlag, recorded, registered>>

\* Mutant of Destructor: the backup flag is not looked at.
DestructorNoFlag(this) ==
  /\ DeleteNodes(allocatedNodes[this])
  /\ variableNodes' = [variableNodes EXCEPT ![this] = EmptyMap]
  /\ allocatedNodes' = [allocatedNodes EXCEPT ![this] = {}]

(***************************************************************************)
(* AstGarbageCollector::~AstGarbageCollector()                             *)
(* The members of the object end with it: its slot reads as empty.         *)
(***************************************************************************)
Destructor(this) ==
  IF backupFlag[this] = FALSE
    THEN freeAllAstNodes(this)
    ELSE /\ DeleteNodes({})
         /\ variableNodes' = [variableNodes EXCEPT ![this] = EmptyMap]
         /\ allocatedNodes' = [allocatedNodes EXCEPT ![this] = {}]

Destroy(this) ==
  /\ Running
  /\ UNCHANGED <<z3Vars, exVars>>
  /\ this \in exists
  /\ Destructor(this)
  /\ exists' = exists \ {this}
  /\ backupFlag' = [backupFlag EXCEPT ![this] = FALSE]
  /\ op' = Call("destroy", this, NoArena, NoNode, allocatedNodes[this], "", "ok")
  /\ snap' = [Touch(this, FALSE) EXCEPT ![this] = NoSnap]
  /\ UNCHANGED <<recorded, registered>>

(***************************************************************************)
(* void AstGarbageCollector::freeAstNodes(std::set<AbstractNode*>& nodes)  *)
(* The caller hands over valid pointers.  nodes.clear() empties the        *)
(* caller's set: op.nodesAfter is the set as the call leaves it.           *)
(***************************************************************************)
freeAstNodes(this, nodes) ==
  /\ allocatedNodes' = [allocatedNodes EXCEPT ![this] = @ \ nodes]
  /\ variableNodes' = [variableNodes EXCEPT ![this] =
        [k \in DOMAIN @ \ {getVarName(n) : n \in {m \in nodes : getKind(m) = "VARIABLE_NODE"}}
           |-> @[k]]]
  /\ DeleteNodes(nodes)

FreeSubset(this, nodes) ==
  /\ Running
  /\ UNCHANGED <<z3Vars, exVars>>
  /\ this \in exists
  /\ \A n \in nodes : Valid(n)
  /\ freeAstNodes(this, nodes)
  /\ op' = [Call("free_subset", this, NoArena, NoNode, nodes, "", "ok")
              EXCEPT !.nodesAfter = {}]
  /\ snap' = Touch(this, FALSE)
  /\ UNCHANGED <<exists, backupFlag, recorded, registered>>

\* Mutant of recordAstNode: the node replaces the live set.
recordReplacing(this, node) ==
  /\ allocatedNodes' = [allocatedNodes EXCEPT ![this] = {node}]
  /\ UNCHANGED <<variableNodes, backupFlag>>
  /\ op' = [Call("record", this, NoArena, node, {}, "", "ok") EXCEPT !.ret = node]

(***************************************************************************)
(* AbstractNode* AstGarbageCollector::recordAstNode(AbstractNode* node)    *)
(* The caller records a node it has just made, or one this arena tracks.   *)
(* op.ret is the pointer the call returns.                                 *)
(***************************************************************************)
recordAstNode(this, node) ==
  /\ allocatedNodes' = [allocatedNodes EXCEPT ![this] = @ \cup {node}]
  /\ UNCHANGED <<variableNodes, backupFlag>>
  /\ op' = [Call("record", this, NoArena, node, {}, "", "ok") EXCEPT !.ret = node]

Record(this, node) ==
  /\ Running
  /\ UNCHANGED <<z3Vars, exVars>>
  /\ this \in exists
  /\ Valid(node)
  /\ node \in allocatedNodes[this] \/ \A b \in Arena : node \notin allocatedNodes[b]
  /\ recordAstNode(this, node)
  /\ DeleteNodes({})
  /\ snap' = [b \in Arena |->
                IF Touch(this, TRUE)[b].clean /\ snap[b].src = this
                     /\ node \notin allocatedNodes[this]
                  THEN [snap[b] EXCEPT !.added = @ \cup {node}]
                  ELSE Touch(this, TRUE)[b]]
  /\ recorded' = recorded \cup {node}
  /\ UNCHANGED <<exists, registered>>

\* Mutant of recordVariableAstNode: the node is put in the live set too.
recordVariableTracking(this, name, node) ==
  /\ variableNodes' = [variableNodes EXCEPT ![this] = MapEmplace(@, name, node)]
  /\ allocatedNodes' = [allocatedNodes EXCEPT ![this] = @ \cup {node}]
  /\ UNCHANGED backupFlag
  /\ op' = Call("record_variable", this, NoArena, node, {}, name,
                IF name \in DOMAIN variableNodes[this] THEN "Duplicate" ELSE "ok")

(***************************************************************************)
(* void AstGarbageCollector::recordVariableAstNode(name, node)             *)
(* emplace(...).second is false when the key is present: the map is left   *)
(* as it was and the Ast exception is thrown.                              *)
(***************************************************************************)
recordVariableAstNode(this, name, node) ==
  /\ variableNodes' = [variableNodes EXCEPT ![this] = MapEmplace(@, name, node)]
  /\ UNCHANGED <<allocatedNodes, backupFlag>>
  /\ op' = Call("record_variable", this, NoArena, node, {}, name,
                IF name \in DOMAIN variableNodes[this] THEN "Duplicate" ELSE "ok")

RecordVariable(this, name, node) ==
  /\ Running
  /\ UNCHANGED <<z3Vars, exVars>>
  /\ this \in exists
  /\ Valid(node)
  /\ recordVariableAstNode(this, name, node)
  /\ DeleteNodes({})
  /\ snap' = Touch(this, TRUE)
  /\ registered' = registered \cup {name}
  /\ UNCHANGED <<exists, recorded>>

(***************************************************************************)
(* AbstractNode* AstGarbageCollector::getAstVariableNode(name) const       *)
(***************************************************************************)
getAstVariableNode(this, name) ==
  IF name \in DOMAIN variableNodes[this] THEN variableNodes[this][name] ELSE NoNode

GetVariable(this, name) ==
  /\ Running
  /\ UNCHANGED <<z3Vars, exVars>>
  /\ this \in exists
  /\ op' = [Call("get_variable", this, NoArena, NoNode, {}, name, "ok")
              EXCEPT !.ret = getAstVariableNode(this, name)]
  /\ DeleteNodes({})
  /\ UNCHANGED <<exists, allocatedNodes, variableNodes, backupFlag, snap, recorded,
                 registered>>

(***************************************************************************)
(* const std::set<AbstractNode*>& getAllocatedAstNodes(void) const         *)
(***************************************************************************)
getAllocatedAstNodes(this) == allocatedNodes[this]

GetAllocated(this) ==
  /\ Running
  /\ UNCHANGED <<z3Vars, exVars>>
  /\ this \in exists
  /\ op' = Call("getAllocatedAstNodes", this, NoArena, NoNode,
                getAllocatedAstNodes(this), "", "ok")
  /\ DeleteNodes({})
  /\ UNCHANGED <<exists, allocatedNodes, variableNodes, backupFlag, snap, recorded,
                 registered>>

(***************************************************************************)
(* const std::map<std::string, AbstractNode*>& getAstVariableNodes(void)   *)
(* const                                                                   *)
(***************************************************************************)
getAstVariableNodes(this) == variableNodes[this]

GetVariables(this) ==
  /\ Running
  /\ UNCHANGED <<z3Vars, exVars>>
  /\ this \in exists
  /\ op' = [Call("getAstVariableNodes", this, NoArena, NoNode, {}, "", "ok")
              EXCEPT !.map = getAstVariableNodes(this)]
  /\ DeleteNodes({})
  /\ UNCHANGED <<exists, allocatedNodes, variableNodes, backupFlag, snap, recorded,
                 registered>>

(***************************************************************************)
(* void AstGarbageCollector::setAllocatedAstNodes(nodes)                   *)
(* The caller hands over valid pointers or the live set of an arena.       *)
(***************************************************************************)
\* Mutant of setAllocatedAstNodes: the assignment without the loop before it.
setAllocatedKeepingAll(this, nodes) ==
  /\ DeleteNodes({})
  /\ allocatedNodes' = [allocatedNodes EXCEPT ![this] = nodes]
  /\ UNCHANGED <<variableNodes, backupFlag>>

setAllocatedAstNodes(this, nodes) ==
  /\ DeleteNodes({n \in allocatedNodes[this] : n \notin nodes})
  /\ allocatedNodes' = [allocatedNodes EXCEPT ![this] = nodes]
  /\ UNCHANGED <<variableNodes, backupFlag>>

SetAllocated(this, nodes) ==
  /\ Running
  /\ UNCHANGED <<z3Vars, exVars>>
  /\ this \in exists
  /\ setAllocatedAstNodes(this, nodes)
  /\ op' = Call("setAllocatedAstNodes", this, NoArena, NoNode, nodes, "", "ok")
  /\ snap' = Touch(this, FALSE)
  /\ recorded' = recorded \cup nodes
  /\ UNCHANGED <<exists, registered>>

(***************************************************************************)
(* void AstGarbageCollector::setAstVariableNodes(nodes)                    *)
(***************************************************************************)
setAstVariableNodes(this, nodes) ==
  /\ variableNodes' = [variableNodes EXCEPT ![this] = nodes]
  /\ DeleteNodes({})
  /\ UNCHANGED <<allocatedNodes, backupFlag>>

SetVariables(this, nodes) ==
  /\ Running
  /\ UNCHANGED <<z3Vars, exVars>>
  /\ this \in exists
  /\ setAstVariableNodes(this, nodes)
  /\ op' = [Call("setAstVariableNodes", this, NoArena, NoNode, {}, "", "ok")
              EXCEPT !.map = nodes]
  /\ snap' = Touch(this, FALSE)
  /\ registered' = registered \cup DOMAIN nodes
  /\ UNCHANGED <<exists, recorded>>

ValidNodes == {n \in Node : Valid(n)}

(***************************************************************************)
(* The program works on arena 0 and keeps copies of it as backups.  A      *)
(* backup is not written to (it is a view of the nodes), except that it    *)
(* can be handed a set to free and that it is destructed.                  *)
(***************************************************************************)
NextGC ==
  \/ \E b \in Arena \ {0} : Snapshot(b, 0)
  \/ \E other \in Arena : Restore(0, other)
  \/ FreeAll(0)
  \/ \E this \in Arena : Destroy(this)
  \/ \E this \in Arena : \E nodes \in SUBSET ValidNodes : FreeSubset(this, nodes)
  \/ \E node \in Node : Record(0, node)
  \/ \E name \in Names : \E node \in Node : RecordVariable(0, name, node)
  \/ \E nodes \in SUBSET ValidNodes \cup {allocatedNodes[b] : b \in exists} :
        SetAllocated(0, nodes)
  \/ \E nodes \in {variableNodes[b] : b \in exists} : SetVariables(0, nodes)

(***************************************************************************)
(* The node model, as far as the translator reads it: a node's kind, its   *)
(* children in order, and its payload (DecimalNode::getValue, the id of a  *)
(* VariableNode's variable, StringNode::getValue, and for a ReferenceNode  *)
(* the root getSymbolicExpression().getAst() resolves to).                 *)
(***************************************************************************)
AstNode(kind, children, ast, value, str) ==
  [kind |-> kind, children |-> children, ref |-> ast, value |-> value, name |-> str]

Decimal(value) == AstNode("DECIMAL_NODE", <<>>, NoNode, value, "")
String(str) == AstNode("STRING_NODE", <<>>, NoNode, 0, str)
Variable(varId) == AstNode("VARIABLE_NODE", <<>>, NoNode, varId, "")
Reference(ast) == AstNode("REFERENCE_NODE", <<>>, ast, 0, "")
Op(kind, children) == AstNode(kind, children, NoNode, 0, "")

Kind(n) == dag[n].kind
Children(n) == dag[n].children

(***************************************************************************)
(* The symbolic engine: getSymbolicVariableFromId knows the variables 1    *)
(* and 2, both 8 bits wide, and returns nullptr for any other id.          *)
(***************************************************************************)
SymVarIds == {1, 2}

SymVarName(varId) == IF varId = 1 THEN "SymVar_1" ELSE "SymVar_2"

SymVarSize(varId) == 8

\* VariableNode::evaluate(): the concrete value of the variable.
SymVarValue(varId) == IF varId = 1 THEN 42 ELSE 7

(***************************************************************************)
(* The solver.  Z3 hash-conses its terms, so a Z3_ast handle is the term:  *)
(* the function applied, the argument handles, and for a numeral or a      *)
(* constant its value or name, with the term's sort and bit width.         *)
(***************************************************************************)
Z3Ast(f, args, value, str, sort, size) ==
  [op |-> f, args |-> args, val |-> value, name |-> str, sort |-> sort, size |-> size]

NoAst == Z3Ast("null", <<>>, 0, "", "none", 0)

RECURSIVE Pow2(_)
Pow2(w) == IF w = 0 THEN 1 ELSE 2 * Pow2(w - 1)

\* Z3_mk_numeral(value, Z3_mk_int_sort)
Z3_mk_int(value) == Z3Ast("numeral", <<>>, value, "", "int", 0)

\* Z3_mk_numeral(value, Z3_mk_bv_sort(size)): the value modulo 2^size
Z3_mk_bv(value, size) == Z3Ast("numeral", <<>>, value % Pow2(size), "", "bv", size)

\* Z3_mk_const(Z3_mk_string_symbol(name), Z3_mk_bv_sort(size))
Z3_mk_const(str, size) == Z3Ast("const", <<>>, 0, str, "bv", size)

BoolFunctions ==
  {"Z3_mk_bvsge", "Z3_mk_bvsgt", "Z3_mk_bvsle", "Z3_mk_bvslt", "Z3_mk_bvuge",
   "Z3_mk_bvugt", "Z3_mk_bvule", "Z3_mk_bvult", "Z3_mk_eq", "Z3_mk_distinct",
   "Z3_mk_and", "Z3_mk_or", "Z3_mk_not"}

Z3_mk_binary(f, a, b) ==
  IF f \in BoolFunctions THEN Z3Ast(f, <<a, b>>, 0, "", "bool", 0)
  ELSE Z3Ast(f, <<a, b>>, 0, "", "bv", a.size)

Z3_mk_unary(f, a) ==
  IF f \in BoolFunctions THEN Z3Ast(f, <<a>>, 0, "", "bool", 0)
  ELSE Z3Ast(f, <<a>>, 0, "", "bv", a.size)

\* Z3_mk_rotate_left / Z3_mk_rotate_right (amount, value)
Z3_mk_rotate(f, amount, a) == Z3Ast(f, <<a>>, amount, "", "bv", a.size)

\* Z3_mk_concat(a, b): a is the high part
Z3_mk_concat(a, b) == Z3Ast("Z3_mk_concat", <<a, b>>, 0, "", "bv", a.size + b.size)

\* Z3_mk_extract(high, low, value)
Z3_mk_extract(high, low, a) ==
  Z3Ast("Z3_mk_extract", <<Z3_mk_int(high), Z3_mk_int(low), a>>, 0, "", "bv", high - low + 1)

\* Z3_mk_zero_ext / Z3_mk_sign_ext (ext, value)
Z3_mk_ext(f, ext, a) == Z3Ast(f, <<a>>, ext, "", "bv", a.size + ext)

Z3_mk_ite(c, t, e) == Z3Ast("Z3_mk_ite", <<c, t, e>>, 0, "", t.sort, t.size)

\* TritonToZ3Ast::isBool / z3::sort::is_bool
isBool(expr) == expr.sort = "bool"

(***************************************************************************)
(* getBinaryZ3Function and getUnaryZ3Function: the function_map of each    *)
(* translator.  The legacy map has no entry for BVUGT_NODE.                *)
(***************************************************************************)
BinaryFunctionMap ==
  [BVADD_NODE |-> "Z3_mk_bvadd", BVAND_NODE |-> "Z3_mk_bvand",
   BVASHR_NODE |-> "Z3_mk_bvashr", BVLSHR_NODE |-> "Z3_mk_bvlshr",
   BVMUL_NODE |-> "Z3_mk_bvmul", BVNAND_NODE |-> "Z3_mk_bvnand",
   BVNOR_NODE |-> "Z3_mk_bvnor", BVOR_NODE |-> "Z3_mk_bvor",
   BVSDIV_NODE |-> "Z3_mk_bvsdiv", BVSGE_NODE |-> "Z3_mk_bvsge",
   BVSGT_NODE |-> "Z3_mk_bvsgt", BVSHL_NODE |-> "Z3_mk_bvshl",
   BVSLE_NODE |-> "Z3_mk_bvsle", BVSLT_NODE |-> "Z3_mk_bvslt",
   BVSMOD_NODE |-> "Z3_mk_bvsmod", BVSREM_NODE |-> "Z3_mk_bvsrem",
   BVSUB_NODE |-> "Z3_mk_bvsub", BVUDIV_NODE |-> "Z3_mk_bvudiv",
   BVUGE_NODE |-> "Z3_mk_bvuge", BVUGT_NODE |-> "Z3_mk_bvugt",
   BVULE_NODE |-> "Z3_mk_bvule", BVULT_NODE |-> "Z3_mk_bvult",
   BVUREM_NODE |-> "Z3_mk_bvurem", BVXNOR_NODE |-> "Z3_mk_bvxnor",
   BVXOR_NODE |-> "Z3_mk_bvxor", EQUAL_NODE |-> "Z3_mk_eq"]

\* The case labels of the "standard cases with 2 operands" of each convert.
BinaryCases(which) ==
  IF which = "new" THEN DOMAIN BinaryFunctionMap
  ELSE DOMAIN BinaryFunctionMap \ {"BVUGT_NODE"}

getBinaryZ3Function(which, kind) ==
  IF kind \in BinaryCases(which) THEN BinaryFunctionMap[kind] ELSE "nullptr"

UnaryFunctionMap == [BVNEG_NODE |-> "Z3_mk_bvneg", BVNOT_NODE |-> "Z3_mk_bvnot"]

getUnaryZ3Function(kind) ==
  IF kind \in DOMAIN UnaryFunctionMap THEN UnaryFunctionMap[kind] ELSE "nullptr"

(***************************************************************************)
(* The body of the switch of convert for one node: either the Z3 term it   *)
(* hands to emplace/insert together with the symbol table it leaves, or    *)
(* the exception it throws.  at(M, k) throws std::out_of_range when k has  *)
(* no entry.                                                               *)
(***************************************************************************)
Ok(ast, syms) == [err |-> "", ast |-> ast, symbols |-> syms]

Throw(what, syms) == [err |-> what, ast |-> NoAst, symbols |-> syms]

\* getUintValue: the z3::expr overload used by the legacy translator throws
\* on a term that is not an integer, the Z3_ast overload does not check.
getUintValueThrows(which, expr) == which = "legacy" /\ expr.sort # "int"

getUintValue(expr) == IF expr.op = "numeral" THEN expr.val ELSE 0

\* Mutant of ConcatLoop: the next child is the first argument of the concat.
RECURSIVE ConcatLoopReversed(_, _, _, _, _)
ConcatLoopReversed(M, children, idx, currentValue, syms) ==
  IF idx > Len(children) THEN Ok(currentValue, syms)
  ELSE IF children[idx] \notin DOMAIN M THEN Throw("out_of_range", syms)
  ELSE ConcatLoopReversed(M, children, idx + 1,
                          Z3_mk_concat(M[children[idx]], currentValue), syms)

RECURSIVE ConcatLoop(_, _, _, _, _)
ConcatLoop(M, children, idx, currentValue, syms) ==
  IF idx > Len(children) THEN Ok(currentValue, syms)
  ELSE IF children[idx] \notin DOMAIN M THEN Throw("out_of_range", syms)
  ELSE ConcatLoop(M, children, idx + 1, Z3_mk_concat(currentValue, M[children[idx]]), syms)

RECURSIVE LogicLoop(_, _, _, _, _, _)
LogicLoop(f, M, children, idx, currentValue, syms) ==
  IF idx > Len(children) THEN Ok(currentValue, syms)
  ELSE IF children[idx] \notin DOMAIN M THEN Throw("out_of_range", syms)
  ELSE IF ~isBool(M[children[idx]]) THEN Throw("TypeMismatch", syms)
  ELSE LogicLoop(f, M, children, idx + 1, Z3_mk_binary(f, currentValue, M[children[idx]]), syms)

Logic(f, M, children, syms) ==
  IF children[1] \notin DOMAIN M THEN Throw("out_of_range", syms)
  ELSE IF ~isBool(M[children[1]]) THEN Throw("TypeMismatch", syms)
  ELSE LogicLoop(f, M, children, 2, M[children[1]], syms)

Extend(which, f, M, children, syms) ==
  IF ~({children[1], children[2]} \subseteq DOMAIN M) THEN Throw("out_of_range", syms)
  ELSE IF getUintValueThrows(which, M[children[1]]) THEN Throw("NotNumerical", syms)
  ELSE Ok(Z3_mk_ext(f, getUintValue(M[children[1]]), M[children[2]]), syms)

Rotate(f, M, children, syms) ==
  IF children[2] \notin DOMAIN M THEN Throw("out_of_range", syms)
  ELSE Ok(Z3_mk_rotate(f, dag[children[1]].value, M[children[2]]), syms)

\* The number of solver constructors the fold of a CONCAT, LAND or LOR node
\* calls before it leaves: one per child after the first, up to the child
\* whose lookup or sort test throws.
FoldedBeforeThrow(n, M) ==
  LET children == Children(n)
      bad == {idx \in 1..Len(children) :
                \/ children[idx] \notin DOMAIN M
                \/ Kind(n) # "CONCAT_NODE" /\ ~isBool(M[children[idx]])}
      stop == IF bad = {} THEN Len(children) + 1
              ELSE CHOOSE idx \in bad : \A other \in bad : idx <= other
  IN IF stop > 2 THEN stop - 2 ELSE 0

Translate(which, eval, n, M, syms) ==
  LET children == Children(n)
      kind == Kind(n)
  IN CASE kind \in BinaryCases(which) ->
            IF {children[1], children[2]} \subseteq DOMAIN M
            THEN Ok(Z3_mk_binary(getBinaryZ3Function(which, kind), M[children[1]], M[children[2]]), syms)
            ELSE Throw("out_of_range", syms)
       [] kind \in {"BVNEG_NODE", "BVNOT_NODE"} ->
            IF children[1] \in DOMAIN M
            THEN Ok(Z3_mk_unary(getUnaryZ3Function(kind), M[children[1]]), syms)
            ELSE Throw("out_of_range", syms)
       [] kind = "BVROL_NODE" -> Rotate("Z3_mk_rotate_left", M, children, syms)
       [] kind = "BVROR_NODE" -> Rotate("Z3_mk_rotate_right", M, children, syms)
       [] kind = "BV_NODE" ->
            IF ~({children[1], children[2]} \subseteq DOMAIN M) THEN Throw("out_of_range", syms)
            ELSE IF getUintValueThrows(which, M[children[2]]) THEN Throw("NotNumerical", syms)
            ELSE Ok(Z3_mk_bv(getUintValue(M[children[1]]), getUintValue(M[children[2]])), syms)
       [] kind = "CONCAT_NODE" ->
            IF children[1] \notin DOMAIN M THEN Throw("out_of_range", syms)
            ELSE ConcatLoop(M, children, 2, M[children[1]], syms)
       [] kind = "DECIMAL_NODE" -> Ok(Z3_mk_int(dag[n].value), syms)
       [] kind = "DISTINCT_NODE" ->
            IF {children[1], children[2]} \subseteq DOMAIN M
            THEN Ok(Z3_mk_binary("Z3_mk_distinct", M[children[1]], M[children[2]]), syms)
            ELSE Throw("out_of_range", syms)
       [] kind = "EXTRACT_NODE" ->
            IF ~({children[1], children[2], children[3]} \subseteq DOMAIN M) THEN Throw("out_of_range", syms)
            ELSE IF getUintValueThrows(which, M[children[1]]) \/ getUintValueThrows(which, M[children[2]])
            THEN Throw("NotNumerical", syms)
            ELSE Ok(Z3_mk_extract(getUintValue(M[children[1]]), getUintValue(M[children[2]]), M[children[3]]), syms)
       [] kind = "ITE_NODE" ->
            IF {children[1], children[2], children[3]} \subseteq DOMAIN M
            THEN Ok(Z3_mk_ite(M[children[1]], M[children[2]], M[children[3]]), syms)
            ELSE Throw("out_of_range", syms)
       [] kind = "LAND_NODE" -> Logic("Z3_mk_and", M, children, syms)
       [] kind = "LET_NODE" ->
            LET bound == MapAssign(syms, dag[children[1]].name, children[2])
            IN IF children[3] \in DOMAIN M THEN Ok(M[children[3]], bound)
               ELSE Throw("out_of_range", bound)
       [] kind = "LNOT_NODE" ->
            IF children[1] \notin DOMAIN M THEN Throw("out_of_range", syms)
            ELSE IF ~isBool(M[children[1]]) THEN Throw("TypeMismatch", syms)
            ELSE Ok(Z3_mk_unary("Z3_mk_not", M[children[1]]), syms)
       [] kind = "LOR_NODE" -> Logic("Z3_mk_or", M, children, syms)
       [] kind = "REFERENCE_NODE" ->
            IF dag[n].ref \in DOMAIN M THEN Ok(M[dag[n].ref], syms)
            ELSE Throw("out_of_range", syms)
       [] kind = "STRING_NODE" ->
            IF dag[n].name \notin DOMAIN syms THEN Throw("UnboundSymbol", syms)
            ELSE IF syms[dag[n].name] \in DOMAIN M THEN Ok(M[syms[dag[n].name]], syms)
            ELSE Throw("out_of_range", syms)
       [] kind = "SX_NODE" -> Extend(which, "Z3_mk_sign_ext", M, children, syms)
       [] kind = "VARIABLE_NODE" ->
            IF dag[n].value \notin SymVarIds THEN Throw("NullVariable", syms)
            ELSE IF eval
            THEN Ok(Z3_mk_bv(SymVarValue(dag[n].value), SymVarSize(dag[n].value)), syms)
            ELSE Ok(Z3_mk_const(SymVarName(dag[n].value), SymVarSize(dag[n].value)), syms)
       [] kind = "ZX_NODE" -> Extend(which, "Z3_mk_zero_ext", M, children, syms)
       [] OTHER -> Throw("UnknownKind", syms)

(***************************************************************************)
(* The expressions convert is called on.  A node is its index in dag;      *)
(* children and reference targets are indices of dag.                      *)
(***************************************************************************)
BinaryDag(kind) == <<Variable(1), Variable(2), Op(kind, <<1, 2>>)>>

UnaryDag(kind) == <<Variable(1), Op(kind, <<1>>)>>

\* BVADD(BV(3, 8), BV(5, 8)), the two literals sharing the width node
LiteralDag ==
  <<Decimal(3), Decimal(8), Op("BV_NODE", <<1, 2>>), Decimal(5),
    Op("BV_NODE", <<4, 2>>), Op("BVADD_NODE", <<3, 5>>)>>

\* the same child in both positions, and a sub-expression with two parents
SharedDag ==
  <<Variable(1), Op("BVADD_NODE", <<1, 1>>), Op("BVNOT_NODE", <<2>>),
    Op("BVMUL_NODE", <<2, 3>>)>>

\* BVADD(REFERENCE(e), e) with e = BVNOT(v)
ReferenceDag ==
  <<Variable(1), Op("BVNOT_NODE", <<1>>), Reference(2), Op("BVADD_NODE", <<3, 2>>)>>

IteDag ==
  <<Variable(1), Variable(2), Op("EQUAL_NODE", <<1, 2>>), Op("ITE_NODE", <<3, 1, 2>>)>>

\* CONCAT(BV(0xAA, 8), BV(0xBB, 8), v)
ConcatDag ==
  <<Decimal(170), Decimal(8), Op("BV_NODE", <<1, 2>>), Decimal(187),
    Op("BV_NODE", <<4, 2>>), Variable(1), Op("CONCAT_NODE", <<3, 5, 6>>)>>

\* LET("x", v, STRING("x"))
LetDag == <<String("x"), Variable(1), String("x"), Op("LET_NODE", <<1, 2, 3>>)>>

LogicDag ==
  <<Variable(1), Variable(2), Op("EQUAL_NODE", <<1, 2>>), Op("DISTINCT_NODE", <<1, 2>>),
    Op("LAND_NODE", <<3, 4>>), Op("LOR_NODE", <<3, 4, 5>>), Op("LNOT_NODE", <<6>>),
    Op("LAND_NODE", <<3, 1>>), Op("LOR_NODE", <<2, 3>>), Op("LNOT_NODE", <<1>>)>>

SliceDag ==
  <<Decimal(7), Decimal(4), Variable(1), Op("EXTRACT_NODE", <<1, 2, 3>>),
    Op("ZX_NODE", <<2, 3>>), Op("SX_NODE", <<2, 4>>), Op("BVROL_NODE", <<2, 3>>),
    Op("BVROR_NODE", <<2, 5>>)>>

\* BVADD(REFERENCE(e), v) next to BVADD(e, v), with e = BVNOT(v)
TransparencyDag ==
  <<Variable(1), Op("BVNOT_NODE", <<1>>), Reference(2), Op("BVADD_NODE", <<3, 1>>),
    Op("BVADD_NODE", <<2, 1>>), Op("EQUAL_NODE", <<4, 5>>)>>

\* a reference back-edge: e = BVNOT(REFERENCE(e))
CyclicDag == <<Reference(2), Op("BVNOT_NODE", <<1>>)>>

\* a variable the symbolic engine does not know
UnknownVariableDag == <<Variable(3), Op("BVNOT_NODE", <<1>>)>>

\* two VARIABLE nodes for the same symbolic variable, and one for another
TwoVariableDag ==
  <<Variable(1), Variable(1), Op("BVADD_NODE", <<1, 2>>), Variable(2),
    Op("BVMUL_NODE", <<3, 4>>)>>

\* CONCAT(BV(0xAA, 8), BV(0xBB, 8)) and CONCAT(BV(0xAA, 8), BV(0xBB, 8), BV(5, 4))
LiteralConcatDag ==
  <<Decimal(170), Decimal(8), Op("BV_NODE", <<1, 2>>), Decimal(187),
    Op("BV_NODE", <<4, 2>>), Op("CONCAT_NODE", <<3, 5>>), Decimal(5), Decimal(4),
    Op("BV_NODE", <<7, 8>>), Op("CONCAT_NODE", <<3, 5, 9>>)>>

\* a sum shared by three-child nodes that also hold its operand, in each
\* position
NestedDag ==
  <<Variable(1), Variable(2), Op("BVADD_NODE", <<1, 2>>), Op("EQUAL_NODE", <<1, 2>>),
    Op("ITE_NODE", <<4, 2, 3>>), Op("ITE_NODE", <<4, 3, 2>>), Op("BVADD_NODE", <<3, 2>>),
    Op("CONCAT_NODE", <<3, 2, 3>>)>>

Dags ==
  {BinaryDag(kind) : kind \in DOMAIN BinaryFunctionMap}
    \cup {UnaryDag(kind) : kind \in DOMAIN UnaryFunctionMap}
    \cup {LiteralDag, SharedDag, ReferenceDag, IteDag, ConcatDag, LetDag, LogicDag,
          SliceDag, UnknownVariableDag, CyclicDag, TransparencyDag, TwoVariableDag,
          LiteralConcatDag, NestedDag}

InitZ3 ==
  /\ dag \in Dags
  /\ root \in DOMAIN dag \cup {NoNode}
  /\ impl \in {"new", "legacy"}
  /\ isEval \in BOOLEAN
  /\ symbolicEngine \in {"engine", "nullptr"}
  /\ pc = "construct"
  /\ lowered = <<>>
  /\ calls = EmptyMap
  /\ workstack = <<>>
  /\ visitVector = <<>>
  /\ pos = 1
  /\ workStack = <<>>
  /\ curNode = NoNode
  /\ z3expressions = EmptyMap
  /\ symbols = EmptyMap
  /\ result = NoAst
  /\ err = ""

\* No conversion is in progress.
NoConversion ==
  /\ impl = "new"
  /\ isEval = FALSE
  /\ symbolicEngine = "engine"
  /\ pc = "idle"
  /\ lowered = <<>>
  /\ calls = EmptyMap
  /\ workstack = <<>>
  /\ visitVector = <<>>
  /\ pos = 1
  /\ workStack = <<>>
  /\ curNode = NoNode
  /\ z3expressions = EmptyMap
  /\ symbols = EmptyMap
  /\ result = NoAst
  /\ err = ""

InitIdle ==
  /\ dag = <<>>
  /\ root = NoNode
  /\ NoConversion

Pop(s) == SubSeq(s, 1, Len(s) - 1)

Top(s) == s[Len(s)]

\* Mutant of TritonToZ3Ast: a null symbolicEngine is accepted.
TritonToZ3AstUnchecked ==
  /\ UNCHANGED <<gcVars, exVars>>
  /\ pc = "construct"
  /\ pc' = "call"
  /\ UNCHANGED <<dag, root, impl, isEval, workstack, visitVector, pos, workStack, curNode,
                 z3expressions, symbols, result, err, symbolicEngine, lowered, calls>>

\* The constructor: a null symbolicEngine is refused.
TritonToZ3Ast ==
  /\ UNCHANGED <<gcVars, exVars>>
  /\ pc = "construct"
  /\ IF symbolicEngine = "nullptr"
     THEN pc' = "error" /\ err' = "NullEngine"
     ELSE pc' = "call" /\ UNCHANGED err
  /\ UNCHANGED <<dag, root, impl, isEval, workstack, visitVector, pos, workStack, curNode,
                 z3expressions, symbols, result, symbolicEngine, lowered, calls>>

\* convert, up to the first loop: the null check, and for the frame-stack
\* translator the first push of fillWorkStack.
Convert ==
  /\ UNCHANGED <<gcVars, exVars>>
  /\ pc = "call"
  /\ IF root = NoNode
     THEN /\ pc' = "error"
          /\ err' = "NullInput"
          /\ UNCHANGED <<workstack, curNode>>
     ELSE IF impl = "new"
     THEN /\ pc' = "fill"
          /\ workstack' = <<<<root, 0>>>>
          /\ UNCHANGED <<err, curNode>>
     ELSE /\ pc' = "legacy"
          /\ curNode' = root
          /\ UNCHANGED <<err, workstack>>
  /\ UNCHANGED <<dag, root, impl, isEval, visitVector, pos, workStack, z3expressions,
                 symbols, result, symbolicEngine, lowered, calls>>

\* Mutant of fillWorkStack: a REFERENCE node is not chased.
fillWithoutChase ==
  /\ UNCHANGED <<gcVars, exVars>>
  /\ pc = "fill"
  /\ workstack # <<>>
  /\ LET current_node == Top(workstack)[1]
         child_index == Top(workstack)[2]
         children == Children(current_node)
     IN IF child_index < Len(children)
        THEN /\ workstack' = Pop(workstack) \o <<<<current_node, child_index + 1>>,
                                                   <<children[child_index + 1], 0>>>>
             /\ UNCHANGED <<visitVector, pc>>
        ELSE /\ visitVector' = Append(visitVector, current_node)
             /\ workstack' = Pop(workstack)
             /\ pc' = IF workstack' = <<>> THEN "lower" ELSE "fill"
  /\ UNCHANGED <<dag, root, impl, isEval, pos, workStack, curNode, z3expressions,
                 symbols, result, err, symbolicEngine, lowered, calls>>

\* One iteration of the while loop of fillWorkStack.
fillWorkStack ==
  /\ UNCHANGED <<gcVars, exVars>>
  /\ pc = "fill"
  /\ workstack # <<>>
  /\ LET current_node == Top(workstack)[1]
         child_index == Top(workstack)[2]
         children == Children(current_node)
         next == IF child_index < Len(children) THEN children[child_index + 1]
                 ELSE IF Kind(current_node) = "REFERENCE_NODE" /\ child_index = 0
                 THEN dag[current_node].ref
                 ELSE NoNode
     IN IF next = NoNode
        THEN /\ visitVector' = Append(visitVector, current_node)
             /\ workstack' = Pop(workstack)
             /\ pc' = IF workstack' = <<>> THEN "lower" ELSE "fill"
             /\ UNCHANGED err
        ELSE IF Len(workstack) < MaxStack
        THEN /\ workstack' = Pop(workstack) \o <<<<current_node, child_index + 1>>,
                                                   <<next, 0>>>>
             /\ UNCHANGED <<visitVector, pc, err>>
        ELSE /\ pc' = "error"
             /\ err' = "bad_alloc"
             /\ UNCHANGED <<workstack, visitVector>>
  /\ UNCHANGED <<dag, root, impl, isEval, pos, workStack, curNode, z3expressions,
                 symbols, result, symbolicEngine, lowered, calls>>

\* The number of solver constructors the switch calls for node n: none for
\* the kinds that copy a memo entry, and one for a kind with a single
\* constructor unless it throws, which it does before the call.
SolverCalls(n, M) ==
  CASE Kind(n) \in {"LET_NODE", "REFERENCE_NODE", "STRING_NODE"} -> 0
    [] Kind(n) \in {"CONCAT_NODE", "LAND_NODE", "LOR_NODE"} -> FoldedBeforeThrow(n, M)
    [] OTHER -> IF Translate(impl, isEval, n, M, symbols).err = "" THEN 1 ELSE 0

\* For the mutants of Process: Process with r as the outcome of the switch.
ProcessAs(r, n, next) ==
  /\ symbols' = r.symbols
  /\ lowered' = Append(lowered, n)
  /\ UNCHANGED calls
  /\ IF r.err # ""
     THEN /\ pc' = "error"
          /\ err' = r.err
          /\ UNCHANGED z3expressions
     ELSE /\ pc' = next
          /\ z3expressions' = MapEmplace(z3expressions, n, r.ast)
          /\ UNCHANGED err

\* Mutant of Process: a REFERENCE node gets a solver constant of its own.
ProcessReferenceAsConstant(n, next) ==
  ProcessAs(IF Kind(n) = "REFERENCE_NODE" THEN Ok(Z3_mk_const("ref", 8), symbols)
            ELSE Translate(impl, isEval, n, z3expressions, symbols), n, next)

\* Mutant of Process: a VARIABLE node gets its solver constant in eval mode too.
ProcessVariableIgnoringEval(n, next) ==
  ProcessAs(Translate(impl, IF Kind(n) = "VARIABLE_NODE" THEN FALSE ELSE isEval,
                      n, z3expressions, symbols), n, next)

\* Mutant of Process: LAND and LOR test the sort of their first child only.
RECURSIVE LogicLoopUnchecked(_, _, _, _, _, _)
LogicLoopUnchecked(f, M, children, idx, currentValue, syms) ==
  IF idx > Len(children) THEN Ok(currentValue, syms)
  ELSE IF children[idx] \notin DOMAIN M THEN Throw("out_of_range", syms)
  ELSE LogicLoopUnchecked(f, M, children, idx + 1,
                          Z3_mk_binary(f, currentValue, M[children[idx]]), syms)

ProcessFirstChildChecked(n, next) ==
  ProcessAs(IF /\ Kind(n) \in {"LAND_NODE", "LOR_NODE"}
               /\ Children(n)[1] \in DOMAIN z3expressions
               /\ isBool(z3expressions[Children(n)[1]])
            THEN LogicLoopUnchecked(IF Kind(n) = "LAND_NODE" THEN "Z3_mk_and" ELSE "Z3_mk_or",
                                    z3expressions, Children(n), 2,
                                    z3expressions[Children(n)[1]], symbols)
            ELSE Translate(impl, isEval, n, z3expressions, symbols), n, next)

\* Mutant of Process: a VARIABLE node the symbolic engine does not know gets a
\* solver constant.
ProcessUnknownVariable(n, next) ==
  ProcessAs(IF Kind(n) = "VARIABLE_NODE" /\ dag[n].value \notin SymVarIds
            THEN Ok(Z3_mk_const("SymVar", 8), symbols)
            ELSE Translate(impl, isEval, n, z3expressions, symbols), n, next)

\* Mutant of Process: the memo entries of the children are dropped when their
\* parent has its entry.
ProcessForgettingChildren(n, next) ==
  LET r == Translate(impl, isEval, n, z3expressions, symbols)
      kept == MapEmplace(z3expressions, n, r.ast)
  IN /\ symbols' = r.symbols
     /\ lowered' = Append(lowered, n)
     /\ UNCHANGED calls
     /\ IF r.err # ""
        THEN /\ pc' = "error"
             /\ err' = r.err
             /\ UNCHANGED z3expressions
        ELSE /\ pc' = next
             /\ z3expressions' =
                  [x \in DOMAIN kept \ {Children(n)[i] : i \in 1..Len(Children(n))}
                     |-> kept[x]]
             /\ UNCHANGED err

\* The switch applied to node n, with its emplace/insert or its throw.
Process(n, next) ==
  LET r == Translate(impl, isEval, n, z3expressions, symbols)
  IN /\ symbols' = r.symbols
     /\ lowered' = Append(lowered, n)
     /\ calls' = IF SolverCalls(n, z3expressions) > 0
                 THEN [x \in DOMAIN calls \cup {n} |->
                         IF x # n THEN calls[x]
                         ELSE IF n \in DOMAIN calls THEN calls[n] + 1 ELSE 1]
                 ELSE calls
     /\ IF r.err # ""
        THEN /\ pc' = "error"
             /\ err' = r.err
             /\ UNCHANGED z3expressions
        ELSE /\ pc' = next
             /\ z3expressions' = MapEmplace(z3expressions, n, r.ast)
             /\ UNCHANGED err

\* One iteration of the loop over visitVector.
Lower ==
  /\ UNCHANGED <<gcVars, exVars>>
  /\ pc = "lower"
  /\ pos <= Len(visitVector)
  /\ Process(visitVector[pos], IF pos < Len(visitVector) THEN "lower" ELSE "return")
  /\ pos' = pos + 1
  /\ UNCHANGED <<dag, root, impl, isEval, workstack, visitVector, workStack, curNode, result,
                 symbolicEngine>>

NodeHasRightChild(n, child) ==
  \E index \in 2..Len(Children(n)) : Children(n)[index] = child

\* One iteration of the inner while (node) loop of the legacy convert.
LegacyDescend ==
  /\ UNCHANGED <<gcVars, exVars>>
  /\ pc = "legacy"
  /\ curNode # NoNode
  /\ LET children == Children(curNode)
         pushed == workStack \o SubSeq(children, 2, Len(children)) \o <<curNode>>
     IN IF Len(pushed) <= MaxStack
        THEN /\ workStack' = pushed
             /\ curNode' = IF Len(children) > 0 THEN children[1]
                           ELSE IF Kind(curNode) = "REFERENCE_NODE" THEN dag[curNode].ref
                           ELSE NoNode
             /\ UNCHANGED <<pc, err>>
        ELSE /\ pc' = "error"
             /\ err' = "bad_alloc"
             /\ UNCHANGED <<workStack, curNode>>
  /\ UNCHANGED <<dag, root, impl, isEval, workstack, visitVector, pos, z3expressions,
                 symbols, result, symbolicEngine, lowered, calls>>

\* Mutant of LegacyVisit: the popped node is processed without the swap.
LegacyVisitNoSwap ==
  /\ UNCHANGED <<gcVars, exVars>>
  /\ pc = "legacy"
  /\ curNode = NoNode
  /\ Process(Top(workStack), IF Pop(workStack) = <<>> THEN "return" ELSE "legacy")
  /\ workStack' = Pop(workStack)
  /\ curNode' = NoNode
  /\ UNCHANGED <<dag, root, impl, isEval, workstack, visitVector, pos, result,
                 symbolicEngine>>

\* The rest of one iteration of the do loop: pop, then swap or process.
LegacyVisit ==
  /\ UNCHANGED <<gcVars, exVars>>
  /\ pc = "legacy"
  /\ curNode = NoNode
  /\ LET n == Top(workStack)
         rest == Pop(workStack)
     IN IF rest # <<>> /\ NodeHasRightChild(n, Top(rest))
        THEN /\ workStack' = Pop(rest) \o <<n>>
             /\ curNode' = Top(rest)
             /\ UNCHANGED <<pc, z3expressions, symbols, err, lowered, calls>>
        ELSE /\ Process(n, IF rest = <<>> THEN "return" ELSE "legacy")
             /\ workStack' = rest
             /\ curNode' = NoNode
  /\ UNCHANGED <<dag, root, impl, isEval, workstack, visitVector, pos, result,
                 symbolicEngine>>

\* return z3expressions.begin()->second: the first element of an unordered
\* map in its iteration order, which the standard leaves unspecified.
Return ==
  /\ UNCHANGED <<gcVars, exVars>>
  /\ pc = "return"
  /\ \E first \in DOMAIN z3expressions : result' = z3expressions[first]
  /\ pc' = "done"
  /\ UNCHANGED <<dag, root, impl, isEval, workstack, visitVector, pos, workStack, curNode,
                 z3expressions, symbols, err, symbolicEngine, lowered, calls>>

NextZ3 ==
  \/ TritonToZ3Ast
  \/ Convert
  \/ fillWorkStack
  \/ Lower
  \/ LegacyDescend
  \/ LegacyVisit
  \/ Return

vars == <<gcVars, z3Vars, exVars>>

\* The arena, with no conversion in progress.
\* No instruction is being processed.
NoInstruction ==
  /\ operands = <<>>
  /\ regValue = <<>>
  /\ memValue = <<>>
  /\ symbolicReg = EmptyMap
  /\ symbolicMem = EmptyMap
  /\ apCalls = <<>>
  /\ irpc = "idle"

Init == InitGC /\ InitIdle /\ uniqueNodes = {} /\ NoInstruction

Spec == Init /\ [][NextGC]_vars

\* One convert call on a fresh translator; the arena is left alone.
InitConvert == InitGC /\ InitZ3 /\ uniqueNodes = {} /\ NoInstruction

SpecZ3 == InitConvert /\ [][NextZ3]_vars

\* The thread that called the constructor and convert keeps running until the
\* return or the exception.
SpecZ3Live == SpecZ3 /\ WF_vars(NextZ3)

(***************************************************************************)
(* AstGarbageCollector::extractUniqueAstNodes: inserts root and recurses   *)
(* into each child in turn; a null root returns at once.                   *)
(***************************************************************************)
\* Mutant of extractUniqueAstNodes: the expression a REFERENCE node refers to
\* is inserted with the node.
RECURSIVE extractFollowingReferences(_, _)
extractFollowingReferences(nodes, n) ==
  IF n = NoNode THEN nodes
  ELSE LET RECURSIVE loop(_, _)
           loop(acc, it) ==
             IF it > Len(Children(n)) THEN acc
             ELSE loop(extractFollowingReferences(acc, Children(n)[it]), it + 1)
       IN loop(nodes \cup {n} \cup ({dag[n].ref} \ {NoNode}), 1)

RECURSIVE extractUniqueAstNodes(_, _)
extractUniqueAstNodes(nodes, n) ==
  IF n = NoNode THEN nodes
  ELSE LET RECURSIVE loop(_, _)
           loop(acc, it) ==
             IF it > Len(Children(n)) THEN acc
             ELSE loop(extractUniqueAstNodes(acc, Children(n)[it]), it + 1)
       IN loop(nodes \cup {n}, 1)

\* A call of extractUniqueAstNodes(uniqueNodes, root) on some arena.
ExtractUnique ==
  /\ pc = "idle"
  /\ uniqueNodes' = extractUniqueAstNodes(uniqueNodes, root)
  /\ pc' = "extracted"
  /\ UNCHANGED <<gcVars, dag, root, impl, isEval, workstack, visitVector, pos, workStack,
                 curNode, z3expressions, symbols, result, err, symbolicEngine, lowered,
                 calls, irVars>>

\* The caller's set holds any nodes of the graph before the call.
InitExtract ==
  /\ InitGC
  /\ NoConversion
  /\ dag \in Dags
  /\ root \in DOMAIN dag \cup {NoNode}
  /\ uniqueNodes \in SUBSET DOMAIN dag
  /\ NoInstruction

NextExtract == ExtractUnique

SpecExtract == InitExtract /\ [][NextExtract]_vars

(***************************************************************************)
(* The arena with its const members called between the mutating ones:      *)
(* the three getters and extractUniqueAstNodes, the latter over a graph    *)
(* with a shared child.                                                    *)
(***************************************************************************)
InitQueries ==
  /\ InitGC
  /\ NoConversion
  /\ dag = SharedDag
  /\ root = Len(SharedDag)
  /\ uniqueNodes = {}
  /\ NoInstruction

NextQueries ==
  \/ NextGC
  \/ \E name \in Names : GetVariable(0, name)
  \/ GetAllocated(0)
  \/ GetVariables(0)
  \/ ExtractUnique

SpecQueries == InitQueries /\ [][NextQueries]_vars

(***************************************************************************)
(* MovhpsIRBuilder.  An operand is its kind, its value (a register id, an   *)
(* address or an immediate) and its size in bytes.  The expressions are     *)
(* smt2lib nodes; the operand expressions the AnalysisProcessor builds are  *)
(* leaves that stand for the operand's current content, size * 8 bits.      *)
(***************************************************************************)
RegSize == 16

QwordSize == 8

Operand(type, value, size) == [type |-> type, value |-> value, size |-> size]

smtAstAbstractNode(kind, children, high, low, value, size) ==
  [kind |-> kind, children |-> children, high |-> high, low |-> low, value |-> value,
   size |-> size]

\* no expression
NoExpr == smtAstAbstractNode("none", <<>>, 0, 0, 0, 0)

\* smt2lib::extract(high, low, expr)
extract(high, low, expr) == smtAstAbstractNode("extract", <<expr>>, high, low, 0, 0)

\* smt2lib::concat(expr1, expr2)
concat(expr1, expr2) == smtAstAbstractNode("concat", <<expr1, expr2>>, 0, 0, 0, 0)

\* ap.buildSymbolicRegOperand(reg, regSize)
buildSymbolicRegOperand(reg, regSize) == smtAstAbstractNode("reg", <<>>, 0, 0, reg, regSize)

\* ap.buildSymbolicMemOperand(mem, readSize)
buildSymbolicMemOperand(mem, readSize) == smtAstAbstractNode("mem", <<>>, 0, 0, mem, readSize)

\* One call on the AnalysisProcessor, with the arguments it is given.
ApCall(name, se, reg, mem, size) ==
  [name |-> name, se |-> se, reg |-> reg, mem |-> mem, size |-> size]

\* What a handler leaves: whether it raised, the expressions assigned to
\* registers and to memory, and the calls made.
Handled(raised, regs, mems, made) ==
  [raised |-> raised, symbolicReg |-> regs, symbolicMem |-> mems, apCalls |-> made]

\* TwoOperandsTemplate::stop(disas) raises.
stop == Handled(TRUE, symbolicReg, symbolicMem, apCalls)

regImm == stop

regReg == stop

\* Mutant of regMem: the register half is the first argument of the concat.
regMemSwapped ==
  LET readSize == operands[2].size
      mem == operands[2].value
      reg == operands[1].value
      regSize == operands[1].size
      op1 == buildSymbolicRegOperand(reg, regSize)
      op2 == buildSymbolicMemOperand(mem, readSize)
      expr == concat(extract(63, 0, op1), extract(63, 0, op2))
  IN Handled(FALSE, MapAssign(symbolicReg, reg, expr), symbolicMem,
             apCalls \o <<ApCall("createRegSE", expr, reg, 0, regSize),
                          ApCall("assignmentSpreadTaintRegMem", expr, reg, mem, readSize)>>)

regMem ==
  LET readSize == operands[2].size
      mem == operands[2].value
      reg == operands[1].value
      regSize == operands[1].size
      op1 == buildSymbolicRegOperand(reg, regSize)
      op2 == buildSymbolicMemOperand(mem, readSize)
      expr == concat(extract(63, 0, op2), extract(63, 0, op1))
  IN Handled(FALSE, MapAssign(symbolicReg, reg, expr), symbolicMem,
             apCalls \o <<ApCall("createRegSE", expr, reg, 0, regSize),
                          ApCall("assignmentSpreadTaintRegMem", expr, reg, mem, readSize)>>)

memImm == stop

memReg ==
  LET writeSize == operands[1].size
      mem == operands[1].value
      reg == operands[2].value
      regSize == operands[2].size
      op2 == buildSymbolicRegOperand(reg, regSize)
      expr == extract(127, 64, op2)
  IN Handled(FALSE, symbolicReg, MapAssign(symbolicMem, mem, expr),
             apCalls \o <<ApCall("createMemSE", expr, 0, mem, writeSize),
                          ApCall("assignmentSpreadTaintMemReg", expr, reg, mem, writeSize)>>)

\* TwoOperandsTemplate::templateMethod: the handler of the operand form.
templateMethod ==
  CASE operands[1].type = "REG" /\ operands[2].type = "IMM" -> regImm
    [] operands[1].type = "REG" /\ operands[2].type = "REG" -> regReg
    [] operands[1].type = "REG" /\ operands[2].type = "MEM" -> regMem
    [] operands[1].type = "MEM" /\ operands[2].type = "IMM" -> memImm
    [] operands[1].type = "MEM" /\ operands[2].type = "REG" -> memReg

\* MovhpsIRBuilder::process: after the handler the expressions are counted
\* and the instruction pointer is moved on; when the handler raises, the
\* instruction is deleted and the exception goes on to the caller.
process ==
  /\ UNCHANGED <<gcVars, z3Vars, uniqueNodes>>
  /\ irpc = "process"
  /\ LET r == templateMethod
     IN /\ symbolicReg' = r.symbolicReg
        /\ symbolicMem' = r.symbolicMem
        /\ IF r.raised
           THEN /\ irpc' = "stopped"
                /\ apCalls' = r.apCalls
           ELSE /\ irpc' = "done"
                /\ apCalls' = r.apCalls \o <<ApCall("incNumberOfExpressions", NoExpr, 0, 0, 0),
                                             ApCall("ControlFlow::rip", NoExpr, 0, 0, 0)>>
  /\ UNCHANGED <<operands, regValue, memValue>>

\* The bit patterns the operands hold: bit i of pattern k.
Pattern(k, width) ==
  [i \in 1..width |->
     CASE k = 1 -> 1
       [] k = 2 -> (i - 1) % 2
       [] k = 3 -> ((i - 1) \div 32) % 2
       [] k = 4 -> i % 2
       [] OTHER -> 0]

\* A MOVHPS of any operand form; a register is an XMM register, 16 bytes.
InitMovhps ==
  /\ InitGC
  /\ InitIdle
  /\ uniqueNodes = {}
  /\ \E dst, src \in {"REG", "MEM", "IMM"} :
       /\ <<dst, src>> \in {<<"REG", "IMM">>, <<"REG", "REG">>, <<"REG", "MEM">>,
                            <<"MEM", "IMM">>, <<"MEM", "REG">>}
       /\ \E v1, v2 \in 1..2 : \E memSize \in {QwordSize, RegSize} :
            operands = <<Operand(dst, v1, IF dst = "REG" THEN RegSize ELSE memSize),
                         Operand(src, v2, IF src = "REG" THEN RegSize ELSE memSize)>>
       /\ regValue \in {Pattern(k, RegSize * 8) : k \in 1..3}
       /\ IF dst = "MEM" THEN memValue \in {Pattern(k, operands[1].size * 8) : k \in 3..5}
          ELSE IF src = "MEM" THEN memValue \in {Pattern(k, operands[2].size * 8) : k \in 3..5}
          ELSE memValue = <<>>
  /\ symbolicReg = EmptyMap
  /\ symbolicMem = EmptyMap
  /\ apCalls = <<>>
  /\ irpc = "process"

NextMovhps == process

SpecMovhps == InitMovhps /\ [][NextMovhps]_vars

(***************************************************************************)
(* Properties of the arena.  A property of one operation is an action      *)
(* property: op' names the operation a step made, the unprimed variables   *)
(* are the state it was called in and the primed ones the state it left.   *)
(***************************************************************************)

\* What `delete` on every node of S, and on no other node, does to the heap.
DeletedExactly(S) ==
  /\ deleted' = S
  /\ \A n \in Node : delCount'[n] = delCount[n] + (IF n \in S THEN 1 ELSE 0)

\* Arena a is as it was.
Same(a) ==
  /\ allocatedNodes'[a] = allocatedNodes[a]
  /\ variableNodes'[a] = variableNodes[a]
  /\ backupFlag'[a] = backupFlag[a]

\* C1: a convert of a non-null root that returns, returns the solver handle
\* memoized for the root, M[root], in both translators.
C1_ReturnsRootHandle ==
  (pc = "done" /\ root # NoNode) => (root \in DOMAIN z3expressions /\ result = z3expressions[root])

\* C2: across any sequence of record, record_variable, free_all, free_subset,
\* snapshot, restore, setAllocatedAstNodes and destruction, no node is
\* destroyed more than once.
C2_NoDoubleFree == \A n \in Node : delCount[n] < 2

\* C3 as claimed: every node that is in the live set when a snapshot is taken
\* stays undestroyed for as long as the backup arena exists, whatever is
\* applied to the original meanwhile.
C3_LiveWhileBackupExists ==
  \A b \in exists : \A n \in snap[b].live : delCount[n] = 0

\* C3 as amended: while the backup exists, a node that was in the live set
\* when the snapshot was taken is destroyed only by free_all, by free_subset,
\* by setAllocatedAstNodes, by restore from an arena that does not track it
\* or by the destruction of an arena that is not in backup mode; record,
\* record_variable, snapshot, setAstVariableNodes, restore from an arena that
\* tracks it (the backup itself) and the destruction of an arena in backup
\* mode leave it undestroyed.
C3_DestroyedOnlyByFree ==
  [][\A b \in exists : \A n \in snap[b].live :
       (delCount[n] = 0 /\ delCount'[n] > 0) =>
          \/ op'.name \in {"free_all", "free_subset", "setAllocatedAstNodes"}
          \/ op'.name = "restore" /\ n \notin allocatedNodes[op'.other]
          \/ op'.name = "destroy" /\ backupFlag[op'.arena] = FALSE]_gcVars

\* C3's case: the original was restored from a backup that tracks undestroyed
\* nodes, and the restore destroyed other nodes.
C3_Witness ==
  /\ op.name = "restore"
  /\ op.other \in exists
  /\ snap[op.other].live # {}
  /\ \A n \in snap[op.other].live : delCount[n] = 0
  /\ deleted # {}

\* C4: every node that has been recorded and is not destroyed is tracked by
\* exactly one arena whose backup flag is false.
C4_ExactlyOneOwner ==
  \A n \in recorded :
    delCount[n] = 0 =>
      Cardinality({a \in exists : backupFlag[a] = FALSE /\ n \in allocatedNodes[a]}) = 1

\* C5: restore(other) destroys exactly the nodes this arena tracks and other
\* does not, makes this arena's live set and variable map equal to other's,
\* sets this arena's backup flag, and leaves other as it was.
C5_Restore ==
  [][op'.name = "restore" =>
       /\ DeletedExactly(allocatedNodes[op'.arena] \ allocatedNodes[op'.other])
       /\ allocatedNodes'[op'.arena] = allocatedNodes[op'.other]
       /\ variableNodes'[op'.arena] = variableNodes[op'.other]
       /\ backupFlag'[op'.arena] = TRUE
       /\ Same(op'.other)]_gcVars

\* C5's case: a restore that destroyed a node and kept one tracked by both.
C5_Witness ==
  /\ op.name = "restore"
  /\ deleted # {}
  /\ \E n \in allocatedNodes[op.arena] : n \in allocatedNodes[op.other] /\ delCount[n] = 0

\* C6: a snapshot is a point-in-time copy in backup mode that record calls on
\* the original do not change; and after a snapshot followed only by record
\* and record_variable calls on the original, restore from the snapshot leaves
\* the original's live set and variable map as they were when the snapshot
\* was taken and destroys exactly the nodes recorded since.
C6_Rollback ==
  /\ [](\A b \in Arena :
          snap[b].clean =>
            /\ b \in exists
            /\ allocatedNodes[b] = snap[b].alloc
            /\ variableNodes[b] = snap[b].vars
            /\ backupFlag[b] = TRUE)
  /\ [][(op'.name = "restore" /\ snap[op'.other].clean
            /\ snap[op'.other].src = op'.arena) =>
          /\ allocatedNodes'[op'.arena] = snap[op'.other].alloc
          /\ variableNodes'[op'.arena] = snap[op'.other].vars
          /\ DeletedExactly(snap[op'.other].added)]_gcVars

\* C6's case: a restore from a snapshot after which a node was recorded and a
\* variable registered on the original.
C6_Witness ==
  /\ op.name = "restore"
  /\ snap[op.other].src = op.arena
  /\ deleted # {}
  /\ \E k \in registered : k \notin DOMAIN variableNodes[op.arena]

\* C7: record_variable(name, node) inserts name -> node when name is absent,
\* and then get_variable(name) is node; when name is present it fails with
\* Duplicate and leaves the arena as it was.  get_variable of a name that was
\* never registered is none.
C7_RecordVariable ==
  /\ [](\A a \in exists : \A k \in Names \ registered :
          getAstVariableNode(a, k) = NoNode)
  /\ [][op'.name = "record_variable" =>
          /\ allocatedNodes'[op'.arena] = allocatedNodes[op'.arena]
          /\ backupFlag'[op'.arena] = backupFlag[op'.arena]
          /\ deleted' = {}
          /\ IF op'.key \in DOMAIN variableNodes[op'.arena]
                THEN /\ op'.result = "Duplicate"
                     /\ variableNodes'[op'.arena] = variableNodes[op'.arena]
                ELSE /\ op'.result = "ok"
                     /\ DOMAIN variableNodes'[op'.arena]
                          = DOMAIN variableNodes[op'.arena] \cup {op'.key}
                     /\ \A k \in DOMAIN variableNodes[op'.arena] :
                          variableNodes'[op'.arena][k] = variableNodes[op'.arena][k]
                     /\ \A a \in Arena : \A k \in Names :
                          (a = op'.arena /\ k = op'.key) =>
                            getAstVariableNode(a, k)' = op'.node]_gcVars

\* C7's case: a second record_variable of a name, with another node, failed.
C7_Witness ==
  /\ op.name = "record_variable"
  /\ op.result = "Duplicate"
  /\ getAstVariableNode(op.arena, op.key) # op.node

\* C8: free_subset(set) removes every node of the set from the live set,
\* destroys each of them, and removes from the variable map exactly the
\* entries whose target is in the set.
C8_FreeSubset ==
  [][op'.name = "free_subset" =>
       /\ allocatedNodes'[op'.arena] = allocatedNodes[op'.arena] \ op'.nodes
       /\ DeletedExactly(op'.nodes)
       /\ variableNodes'[op'.arena] =
            [k \in {x \in DOMAIN variableNodes[op'.arena] :
                      variableNodes[op'.arena][x] \notin op'.nodes}
               |-> variableNodes[op'.arena][k]]]_gcVars

\* C9: free_all applies delete exactly once to every node of the live set and
\* to no other node, and leaves the live set and the variable map empty:
\* get_variable is none for every name.
C9_FreeAll ==
  [][op'.name = "free_all" =>
       /\ DeletedExactly(allocatedNodes[op'.arena])
       /\ allocatedNodes'[op'.arena] = {}
       /\ variableNodes'[op'.arena] = EmptyMap
       /\ \A a \in Arena : \A k \in Names :
            a = op'.arena => getAstVariableNode(a, k)' = NoNode]_gcVars

\* C9's case: free_all of an arena that tracked nodes and named variables.
C9_Witness ==
  /\ op.name = "free_all"
  /\ deleted # {}
  /\ registered # {}

\* C10: the destruction of an arena in backup mode destroys no node; the
\* destruction of an arena not in backup mode destroys its live set.
C10_Destructor ==
  [][op'.name = "destroy" =>
       DeletedExactly(IF backupFlag[op'.arena] THEN {}
                      ELSE allocatedNodes[op'.arena])]_gcVars

\* C10's case: an arena that tracked nodes was destructed and destroyed none.
C10_Witness ==
  /\ op.name = "destroy"
  /\ op.nodes # {}
  /\ deleted = {}

\* The nodes that are reachable from r through children edges, r included,
\* as a least fixed point; a REFERENCE node has no children edge.
RECURSIVE ChildrenClosure(_)
ChildrenClosure(S) ==
  LET T == S \cup UNION {{Children(n)[i] : i \in 1..Len(Children(n))} : n \in S}
  IN IF T = S THEN S ELSE ChildrenClosure(T)

ReachableByChildren(r) == IF r = NoNode THEN {} ELSE ChildrenClosure({r})

\* C11: extract_unique(out_set, root) adds to out_set exactly the nodes that
\* are reachable from root through children edges, root included, without
\* following a REFERENCE node; it removes nothing, and a null root leaves
\* out_set as it was.
C11_ExtractUnique ==
  [][pc' = "extracted" =>
       /\ uniqueNodes' = uniqueNodes \cup ReachableByChildren(root)
       /\ (root = NoNode => uniqueNodes' = uniqueNodes)]_vars

\* C11's case: extraction from a REFERENCE root into a set that held a node
\* the root does not reach: the root was added, the held node kept, and the
\* expression the reference refers to was not added.
C11_Witness ==
  /\ pc = "extracted"
  /\ dag = ReferenceDag
  /\ root = 3
  /\ uniqueNodes = {3, 4}

\* C12: during one convert of the frame-stack translator the solver-side
\* constructor of a node is invoked at most once: a second or later
\* appearance of the node in the phase-1 sequence makes no solver call.
C12_LoweredAtMostOnce ==
  impl = "new" => \A n \in DOMAIN calls : calls[n] <= 1

\* C13: with an initially empty symbol table, the conversion of
\* LET(STRING("x"), body, STRING("x")) succeeds and the handle of the LET node
\* is the handle of body; no STRING leaf of it fails with UnboundSymbol.
C13_IdempotentLet ==
  (symbolicEngine = "engine" /\ root # NoNode /\ Kind(root) = "LET_NODE") =>
     /\ err = ""
     /\ pc = "done" => /\ {root, Children(root)[2]} \subseteq DOMAIN z3expressions
                       /\ z3expressions[root] = z3expressions[Children(root)[2]]

\* Only a graph with a reference back-edge exhausts a work stack.
StackSuffices == err = "bad_alloc" => dag = CyclicDag

\* C14: fillWorkStack terminates on every finite node graph, reference
\* back-edges included: it never descends into a node that already has a
\* frame on the work stack (from where the same descent would repeat without
\* end), and so never exhausts the memory of the stack.
C14_FillTerminates ==
  impl = "new" =>
     /\ err # "bad_alloc"
     /\ \A i, j \in 1..Len(workstack) : i # j => workstack[i][1] # workstack[j][1]

\* The edges the translators follow: to the children, and from a REFERENCE
\* node to the root of the expression it refers to.
Successors(n) ==
  {Children(n)[i] : i \in 1..Len(Children(n))}
    \cup (IF Kind(n) = "REFERENCE_NODE" THEN {dag[n].ref} ELSE {})

RECURSIVE SuccessorClosure(_)
SuccessorClosure(S) ==
  LET T == S \cup UNION {Successors(n) : n \in S}
  IN IF T = S THEN S ELSE SuccessorClosure(T)

\* Reference resolution is acyclic: no node is reached from itself.
AcyclicReferences ==
  \A n \in DOMAIN dag : n \notin SuccessorClosure(Successors(n))

\* The recursive post-order of n: the post-orders of the children from left
\* to right, then of the expression a REFERENCE refers to, then n.
RECURSIVE PostOrder(_)
RECURSIVE PostOrderOfAll(_)
PostOrderOfAll(children) ==
  IF children = <<>> THEN <<>>
  ELSE PostOrder(Head(children)) \o PostOrderOfAll(Tail(children))

PostOrder(n) ==
  PostOrderOfAll(Children(n))
    \o (IF Kind(n) = "REFERENCE_NODE" THEN PostOrder(dag[n].ref) ELSE <<>>)
    \o <<n>>

IsPrefix(s, t) == Len(s) <= Len(t) /\ s = SubSeq(t, 1, Len(s))

\* C15: on a graph with acyclic reference resolution the sequence fillWorkStack
\* produces is the recursive post-order of the root (children left to right,
\* the referenced root right before its REFERENCE node): the root is last and
\* every node comes after each of its children and its referenced root; while
\* it runs, the sequence is a prefix of that post-order.
C15_PostOrder ==
  (impl = "new" /\ AcyclicReferences) =>
     /\ pc = "fill" => IsPrefix(visitVector, PostOrder(root))
     /\ pc \in {"lower", "return", "done"} =>
          /\ visitVector = PostOrder(root)
          /\ visitVector[Len(visitVector)] = root
          /\ \A i \in 1..Len(visitVector) : \A c \in Successors(visitVector[i]) :
               \E j \in 1..(i - 1) : visitVector[j] = c
          /\ \A i \in 1..Len(visitVector) :
               Kind(visitVector[i]) = "REFERENCE_NODE" =>
                 i > 1 /\ visitVector[i - 1] = dag[visitVector[i]].ref

\* C15's case: the sequence of BVADD(REFERENCE(e), e) with e = BVNOT(v), in
\* which e and v appear once for the reference and once for the child.
C15_Witness ==
  /\ impl = "new"
  /\ pc = "lower"
  /\ dag = ReferenceDag
  /\ root = 4
  /\ visitVector = <<1, 2, 3, 1, 2, 4>>

\* The node a chain of REFERENCE nodes resolves to.
RECURSIVE Resolve(_)
Resolve(n) == IF Kind(n) = "REFERENCE_NODE" THEN Resolve(dag[n].ref) ELSE n

\* Two operator nodes that differ only by REFERENCE nodes put in the place of
\* the roots they resolve to.
SameUpToReferences(a, b) ==
  /\ Kind(a) = Kind(b)
  /\ Children(a) # <<>>
  /\ Len(Children(a)) = Len(Children(b))
  /\ \A i \in 1..Len(Children(a)) : Resolve(Children(a)[i]) = Resolve(Children(b)[i])

\* C16: after a successful convert the memo entry of every REFERENCE node is
\* the memo entry of the root its expression resolves to, and two nodes that
\* differ only by REFERENCE(e) in the place of the root of e have the same
\* handle.
C16_ReferenceTransparency ==
  (pc \in {"return", "done"} /\ AcyclicReferences) =>
     /\ \A n \in DOMAIN z3expressions :
          Kind(n) = "REFERENCE_NODE" =>
             /\ dag[n].ref \in DOMAIN z3expressions
             /\ z3expressions[n] = z3expressions[dag[n].ref]
     /\ \A a, b \in DOMAIN z3expressions :
          SameUpToReferences(a, b) => z3expressions[a] = z3expressions[b]

\* C16's case: a successful convert that lowered BVADD(REFERENCE(e), v) and
\* BVADD(e, v).
C16_Witness ==
  /\ pc = "done"
  /\ dag = TransparencyDag
  /\ root = 6
  /\ {3, 4, 5} \subseteq DOMAIN z3expressions

\* C17: both translators handle every kind of the closed node-kind set: on a
\* graph built from those kinds only, no convert fails with UnknownKind
\* ('Invalid kind of node').
C17_EveryKindHandled == err # "UnknownKind"

\* The step dispatched node n: the switch was entered for it.
Dispatched(n) == lowered' = Append(lowered, n)

\* The pairwise left fold of handles hs with f: ((h1 f h2) f h3) ...
RECURSIVE FoldLeft(_, _)
FoldLeft(f, hs) ==
  IF Len(hs) = 1 THEN hs[1]
  ELSE Z3_mk_binary(f, FoldLeft(f, SubSeq(hs, 1, Len(hs) - 1)), hs[Len(hs)])

\* C18: a LAND, LOR or LNOT node whose children are lowered aborts the convert
\* with TypeMismatch when any child, the first or a later one, is not of
\* boolean sort, and gets no memo entry; when every child is boolean, LAND and
\* LOR get the pairwise left fold of the children's handles in index order
\* with the solver's and/or, and LNOT the solver's not.
C18_BooleanOperands ==
  [][\A n \in DOMAIN dag :
       (/\ Dispatched(n)
        /\ Kind(n) \in {"LAND_NODE", "LOR_NODE", "LNOT_NODE"}
        /\ \A i \in 1..Len(Children(n)) : Children(n)[i] \in DOMAIN z3expressions) =>
          LET hs == [i \in 1..Len(Children(n)) |-> z3expressions[Children(n)[i]]]
          IN IF \E i \in 1..Len(hs) : ~isBool(hs[i])
             THEN /\ pc' = "error"
                  /\ err' = "TypeMismatch"
                  /\ z3expressions' = z3expressions
                  /\ n \notin DOMAIN z3expressions'
             ELSE /\ err' = ""
                  /\ n \in DOMAIN z3expressions'
                  /\ z3expressions'[n] =
                       CASE Kind(n) = "LAND_NODE" -> FoldLeft("Z3_mk_and", hs)
                         [] Kind(n) = "LOR_NODE" -> FoldLeft("Z3_mk_or", hs)
                         [] OTHER -> Z3_mk_unary("Z3_mk_not", hs[1])]_vars

\* C18's case: LAND(EQUAL(a, b), a), whose first child is boolean and whose
\* second is a bit-vector, failed and left no memo entry.
C18_Witness ==
  /\ dag = LogicDag
  /\ root = 8
  /\ err = "TypeMismatch"
  /\ lowered[Len(lowered)] = 8
  /\ isBool(z3expressions[3])
  /\ 8 \notin DOMAIN z3expressions

\* Nothing was traversed, no solver constructor was called and the memo is
\* empty.
NothingDone ==
  /\ workstack = <<>>
  /\ visitVector = <<>>
  /\ workStack = <<>>
  /\ curNode = NoNode
  /\ lowered = <<>>
  /\ calls = EmptyMap
  /\ z3expressions = EmptyMap

\* C19: the construction of a translator with a null symbolic engine fails,
\* and convert of a null root fails with NullInput before any traversal or
\* solver call; neither leaves a memo entry.
C19_NullInputs ==
  /\ (symbolicEngine = "nullptr" /\ pc # "construct") =>
        pc = "error" /\ err = "NullEngine" /\ NothingDone
  /\ (symbolicEngine = "engine" /\ root = NoNode /\ pc \notin {"construct", "call"}) =>
        pc = "error" /\ err = "NullInput" /\ NothingDone
  /\ err = "NullInput" => root = NoNode
  /\ err = "NullEngine" => symbolicEngine = "nullptr"

\* C19's case: convert was called with a null root and failed.
C19_Witness ==
  /\ root = NoNode
  /\ symbolicEngine = "engine"
  /\ pc = "error"
  /\ err = "NullInput"

\* A solver constant occurs in the term h.
RECURSIVE HasConst(_)
HasConst(h) == h.op = "const" \/ \E i \in 1..Len(h.args) : HasConst(h.args[i])

VariableNodes == {n \in DOMAIN dag : Kind(n) = "VARIABLE_NODE"}

\* C20: in eval mode every VARIABLE node is lowered to the bit-vector numeral
\* of the variable's evaluated value at its declared width, so that no memo
\* entry and no result contains a solver constant; otherwise it is lowered to
\* the solver constant of the variable's name and width, and two VARIABLE
\* nodes of one variable get the same constant.
C20_Variables ==
  /\ \A i \in 1..Len(lowered) :
        (lowered[i] \in VariableNodes /\ dag[lowered[i]].value \in SymVarIds) =>
           lowered[i] \in DOMAIN z3expressions
  /\ \A n \in VariableNodes \cap DOMAIN z3expressions :
        LET h == z3expressions[n]
            varId == dag[n].value
        IN /\ varId \in SymVarIds
           /\ h.sort = "bv"
           /\ h.size = SymVarSize(varId)
           /\ h.args = <<>>
           /\ IF isEval
              THEN h.op = "numeral" /\ h.val = SymVarValue(varId)
              ELSE h.op = "const" /\ h.name = SymVarName(varId)
  /\ isEval =>
        /\ \A n \in DOMAIN z3expressions : ~HasConst(z3expressions[n])
        /\ pc = "done" => ~HasConst(result)
  /\ ~isEval =>
        \A a, b \in VariableNodes \cap DOMAIN z3expressions :
           dag[a].value = dag[b].value => z3expressions[a] = z3expressions[b]

\* C20's case: an evaluating conversion of an expression with two VARIABLE
\* nodes of one variable and a third of another has finished.
C20_Witness ==
  /\ isEval
  /\ dag = TwoVariableDag
  /\ root = 5
  /\ pc = "done"
  /\ err = ""
  /\ {1, 2, 4} \subseteq DOMAIN z3expressions

\* The number a ground term of numerals and concats denotes in the solver:
\* concat(a, b) is a shifted left by the width of b, plus b.
RECURSIVE BvValue(_)
BvValue(h) ==
  IF h.op = "Z3_mk_concat"
  THEN BvValue(h.args[1]) * Pow2(h.args[2].size) + BvValue(h.args[2])
  ELSE h.val

\* The sum of the widths of hs[from..Len(hs)].
RECURSIVE WidthFrom(_, _)
WidthFrom(hs, from) == IF from > Len(hs) THEN 0 ELSE hs[from].size + WidthFrom(hs, from + 1)

\* hs[from] in the top bits down to the last element in the low bits.
RECURSIVE ValueFrom(_, _)
ValueFrom(hs, from) ==
  IF from > Len(hs) THEN 0
  ELSE hs[from].val * Pow2(WidthFrom(hs, from + 1)) + ValueFrom(hs, from + 1)

\* The left fold of the solver concat: ((h1 . h2) . h3) ...
RECURSIVE ConcatOf(_)
ConcatOf(hs) ==
  IF Len(hs) = 1 THEN hs[1]
  ELSE Z3_mk_concat(ConcatOf(SubSeq(hs, 1, Len(hs) - 1)), hs[Len(hs)])

\* The handles of the children of n, in index order.
ChildHandles(n) == [i \in 1..Len(Children(n)) |-> z3expressions[Children(n)[i]]]

C22_Record ==
  [][op'.name = "record" =>
       /\ op'.ret = op'.node
       /\ op'.node \in allocatedNodes'[op'.arena]
       /\ allocatedNodes'[op'.arena] \ {op'.node} = allocatedNodes[op'.arena] \ {op'.node}
       /\ op'.node \in allocatedNodes[op'.arena] =>
             allocatedNodes'[op'.arena] = allocatedNodes[op'.arena]
       /\ variableNodes' = variableNodes
       /\ deleted' = {}
       /\ delCount' = delCount]_gcVars

\* C22's case: a node the arena tracked when its backup was taken, with only
\* record calls since, has been recorded again next to another tracked node.
C22_Witness ==
  /\ op.name = "record"
  /\ op.ret = op.node
  /\ \E b \in exists :
        /\ snap[b].src = op.arena
        /\ snap[b].clean
        /\ snap[b].added = {}
        /\ op.node \in snap[b].alloc
        /\ snap[b].alloc = allocatedNodes[op.arena]
        /\ snap[b].alloc # {op.node}

\* The memo holds every child of n and, for a REFERENCE node, the root it
\* refers to.
SuccessorsLowered(n) == Successors(n) \subseteq DOMAIN z3expressions

\* C23: on a graph with acyclic reference resolution the legacy translator
\* dispatches a node only when every child, and for a REFERENCE node its
\* referenced root, has a memo entry, so that no memo lookup misses; the
\* work stack does not outgrow the graph, the convert ends, and when it
\* returns the work stack is empty.
C23_LegacyChildrenFirst ==
  /\ [][(impl = "legacy" /\ AcyclicReferences) =>
          \A n \in DOMAIN dag : Dispatched(n) => SuccessorsLowered(n)]_vars
  /\ []((impl = "legacy" /\ AcyclicReferences) =>
          /\ err \notin {"out_of_range", "bad_alloc"}
          /\ pc \in {"return", "done"} => (workStack = <<>> /\ curNode = NoNode))
  /\ (impl = "legacy" /\ AcyclicReferences) ~> (pc \in {"done", "error"})

\* C23's case: the legacy translator returned from a CONCAT that has a shared
\* sum as its first and third child and the sum's operand as its second.
C23_Witness ==
  /\ impl = "legacy"
  /\ dag = NestedDag
  /\ root = 8
  /\ pc = "done"
  /\ workStack = <<>>
  /\ DOMAIN z3expressions = {1, 2, 3, 8}

\* C24: the legacy translator lowers the nodes in the order of the recursive
\* solution, the children of every node from left to right in index order:
\* on a graph with acyclic reference resolution the sequence of dispatched
\* nodes is a prefix of the recursive post-order of the root, and the whole
\* of it when the convert returns.
C24_LegacyLeftToRight ==
  (impl = "legacy" /\ AcyclicReferences /\ root # NoNode) =>
     /\ IsPrefix(lowered, PostOrder(root))
     /\ pc \in {"return", "done"} => lowered = PostOrder(root)

\* The bits an expression of smt2lib denotes, bit 0 first: extract(high, low)
\* keeps the bits low..high, concat puts its first argument on top of its
\* second.
RECURSIVE Bits(_)
Bits(e) ==
  CASE e.kind = "reg" -> regValue
    [] e.kind = "mem" -> memValue
    [] e.kind = "extract" -> SubSeq(Bits(e.children[1]), e.low + 1, e.high + 1)
    [] e.kind = "concat" -> Bits(e.children[2]) \o Bits(e.children[1])

OperandForm == <<operands[1].type, operands[2].type>>

\* C25: MOVHPS with a register destination and a memory source builds a
\* 128-bit expression whose bits 127..64 are the low 64 bits of the memory
\* source and whose bits 63..0 are the low 64 bits of the destination
\* register, assigns it to the destination register and spreads the taint
\* from the memory to the register; the register-immediate, register-register
\* and memory-immediate forms are rejected and build no expression.
C25_Movhps ==
  irpc \in {"done", "stopped"} =>
    /\ OperandForm = <<"REG", "MEM">> =>
         /\ irpc = "done"
         /\ DOMAIN symbolicReg = {operands[1].value}
         /\ symbolicMem = EmptyMap
         /\ LET expr == symbolicReg[operands[1].value]
            IN /\ Len(Bits(expr)) = 128
               /\ \A i \in 0..63 : /\ Bits(expr)[i + 1] = regValue[i + 1]
                                   /\ Bits(expr)[i + 65] = memValue[i + 1]
               /\ \E k \in 1..Len(apCalls) :
                     apCalls[k] = ApCall("createRegSE", expr, operands[1].value, 0,
                                         operands[1].size)
               /\ \E k \in 1..Len(apCalls) :
                     apCalls[k] = ApCall("assignmentSpreadTaintRegMem", expr,
                                         operands[1].value, operands[2].value,
                                         operands[2].size)
    /\ OperandForm \in {<<"REG", "IMM">>, <<"REG", "REG">>, <<"MEM", "IMM">>} =>
         /\ irpc = "stopped"
         /\ symbolicReg = EmptyMap
         /\ symbolicMem = EmptyMap
         /\ apCalls = <<>>

\* C25's case: MOVHPS xmm, m128 with every bit of the register set and the
\* memory holding 32 clear bits below 32 set bits, twice, was processed: the
\* register's expression denotes the register's low half below the memory's.
C25_Witness ==
  /\ irpc = "done"
  /\ OperandForm = <<"REG", "MEM">>
  /\ operands[2].size = RegSize
  /\ regValue = Pattern(1, 128)
  /\ memValue = Pattern(3, 128)
  /\ Bits(symbolicReg[operands[1].value]) =
       [i \in 1..128 |-> IF i <= 64 THEN 1 ELSE IF i <= 96 THEN 0 ELSE 1]

\* C26: in every reachable state every entry of an arena's variable map
\* targets a node that is in that arena's live set and has not been destroyed.
C26_NoDanglingVariable ==
  \A a \in exists : \A k \in DOMAIN variableNodes[a] :
     /\ variableNodes[a][k] \in allocatedNodes[a]
     /\ Valid(variableNodes[a][k])

\* C27: free_subset destroys exactly the nodes of its input that are in the
\* arena's live set and leaves the nodes the arena does not track alone;
\* after the call the caller's input set is empty.
C27_FreeSubsetTrackedOnly ==
  [][op'.name = "free_subset" =>
       /\ DeletedExactly(op'.nodes \cap allocatedNodes[op'.arena])
       /\ \A n \in op'.nodes \ allocatedNodes[op'.arena] : delCount'[n] = delCount[n]
       /\ op'.nodesAfter = {}]_gcVars

\* C28: while the frame-stack translator lowers the sequence of phase 1 of a
\* graph with acyclic reference resolution, every node it dispatches finds
\* each of its children, and a REFERENCE node the root it refers to, in the
\* memo: no lookup by child or by reference target misses.
C28_LookupsHit ==
  /\ [][(impl = "new" /\ AcyclicReferences) =>
          \A i \in 1..Len(visitVector) :
             (pc = "lower" /\ pos = i /\ Dispatched(visitVector[i])) =>
                /\ \A c \in 1..Len(Children(visitVector[i])) :
                      Children(visitVector[i])[c] \in DOMAIN z3expressions
                /\ Kind(visitVector[i]) = "REFERENCE_NODE" =>
                      dag[visitVector[i]].ref \in DOMAIN z3expressions
                /\ err' # "out_of_range"]_vars
  /\ []((impl = "new" /\ AcyclicReferences) => err # "out_of_range")

\* C28's case: the frame-stack translator has dispatched the REFERENCE node
\* of BVADD(REFERENCE(e), e) with e = BVNOT(v), and copied the entry of e.
C28_Witness ==
  /\ impl = "new"
  /\ dag = ReferenceDag
  /\ root = 4
  /\ pc = "lower"
  /\ lowered = <<1, 2, 3>>
  /\ z3expressions[3] = z3expressions[2]

\* C29: within one convert the memo is write-once: a node that has a memo
\* entry keeps it, with the same handle, through every later step, also when
\* the node is dispatched again.
C29_MemoWriteOnce ==
  [][\A n \in DOMAIN z3expressions :
       /\ n \in DOMAIN z3expressions'
       /\ z3expressions'[n] = z3expressions[n]]_vars

\* C29's case: the operand of BVADD(v, v) has been dispatched a second time by
\* the frame-stack translator and the sum after it.
C29_Witness ==
  /\ impl = "new"
  /\ dag = SharedDag
  /\ root = 2
  /\ lowered = <<1, 1, 2>>
  /\ DOMAIN z3expressions = {1, 2}

\* C30: the dispatch of a VARIABLE node whose variable the symbolic engine
\* does not know aborts the convert with a translation error, in eval mode
\* and otherwise and in both translators, and the node never has a memo
\* entry.
C30_UnknownVariable ==
  /\ [][\A n \in VariableNodes :
          (Dispatched(n) /\ dag[n].value \notin SymVarIds) =>
             /\ pc' = "error"
             /\ err' = "NullVariable"
             /\ z3expressions' = z3expressions]_vars
  /\ [](\A n \in VariableNodes :
          dag[n].value \notin SymVarIds => n \notin DOMAIN z3expressions)

\* C30's case: an evaluating convert of BVNOT(v), v unknown to the symbolic
\* engine, has failed at v and left the memo empty.
C30_Witness ==
  /\ isEval
  /\ dag = UnknownVariableDag
  /\ root = 2
  /\ lowered = <<1>>
  /\ pc = "error"
  /\ err = "NullVariable"
  /\ z3expressions = EmptyMap

\* The greatest of a non-empty set of numbers.
Max(S) == CHOOSE x \in S : \A y \in S : y <= x

\* The number of edges of the longest path from n that follows children and
\* reference resolution and passes through no node of seen, nor twice
\* through a node.
RECURSIVE LongestPath(_, _)
LongestPath(n, seen) ==
  LET further == Successors(n) \ (seen \cup {n})
  IN IF further = {} THEN 0
     ELSE 1 + Max({LongestPath(s, seen \cup {n}) : s \in further})

\* The frames of the work stack are the nodes of one path from the root: each
\* frame above the first holds the child, or the referenced root, that the
\* frame below it has moved on to.
FramesArePath ==
  /\ workstack # <<>> => workstack[1][1] = root
  /\ \A i \in 1..(Len(workstack) - 1) :
        LET current_node == workstack[i][1]
            child_index == workstack[i][2]
        IN /\ child_index >= 1
           /\ workstack[i + 1][1] =
                IF child_index <= Len(Children(current_node))
                THEN Children(current_node)[child_index]
                ELSE dag[current_node].ref

\* C31: in fillWorkStack the work stack holds exactly the frames of the nodes
\* on the current path from the root, so its size never exceeds the length of
\* the longest path from the root plus one, and the child index of every
\* frame is between 0 and the child count of its node, or 1 for a REFERENCE
\* node.
C31_WorkStackIsPath ==
  (impl = "new" /\ pc = "fill") =>
     /\ FramesArePath
     /\ Len(workstack) <= LongestPath(root, {}) + 1
     /\ \A i \in 1..Len(workstack) :
           /\ workstack[i][2] >= 0
           /\ workstack[i][2] <= (IF Kind(workstack[i][1]) = "REFERENCE_NODE" THEN 1
                                  ELSE Len(Children(workstack[i][1])))

\* The fields of every arena, the set of arenas, and the number of times each
\* node has been destroyed, are what they were.
ArenaUntouched ==
  UNCHANGED <<exists, allocatedNodes, variableNodes, backupFlag, delCount>>

\* C32: record changes only the live set of its arena; record_variable
\* changes only the variable map of its arena, so a node handed only to
\* record_variable does not enter the live set; get_variable,
\* getAllocatedAstNodes, getAstVariableNodes and extract_unique change no
\* arena state; none of them destroys a node.
C32_Frames ==
  [][/\ op'.name = "record" =>
          /\ UNCHANGED <<exists, variableNodes, backupFlag, delCount>>
          /\ allocatedNodes'[op'.arena] = allocatedNodes[op'.arena] \cup {op'.node}
          /\ \A a \in Arena \ {op'.arena} : allocatedNodes'[a] = allocatedNodes[a]
     /\ op'.name = "record_variable" =>
          /\ UNCHANGED <<exists, allocatedNodes, backupFlag, delCount>>
          /\ \A a \in Arena \ {op'.arena} : variableNodes'[a] = variableNodes[a]
          /\ \A name \in Names \ {op'.key} :
                /\ name \in DOMAIN variableNodes'[op'.arena]
                     <=> name \in DOMAIN variableNodes[op'.arena]
                /\ name \in DOMAIN variableNodes[op'.arena] =>
                     variableNodes'[op'.arena][name] = variableNodes[op'.arena][name]
     /\ op'.name \in {"get_variable", "getAllocatedAstNodes", "getAstVariableNodes"} =>
          ArenaUntouched
     /\ (pc = "idle" /\ pc' = "extracted") => ArenaUntouched]_vars

C32_Witness ==
  /\ op.name = "record_variable"
  /\ op.result = "ok"
  /\ variableNodes[op.arena][op.key] = op.node
  /\ op.node \notin allocatedNodes[op.arena]
  /\ op.node \notin recorded
  /\ pc = "extracted"
  /\ backupFlag[op.arena]

\* C33: setAllocatedAstNodes(nodes) destroys exactly the nodes its arena
\* tracks that are not in nodes, and the live set becomes nodes; the variable
\* maps, the flags and the other arena's live set stay.  setAstVariableNodes
\* replaces the variable map of its arena by its argument, destroys nothing
\* and leaves the live sets, the flags and the other arena's map.
C33_Setters ==
  [][/\ op'.name = "setAllocatedAstNodes" =>
          /\ DeletedExactly(allocatedNodes[op'.arena] \ op'.nodes)
          /\ allocatedNodes'[op'.arena] = op'.nodes
          /\ \A a \in Arena \ {op'.arena} : allocatedNodes'[a] = allocatedNodes[a]
          /\ UNCHANGED <<exists, variableNodes, backupFlag>>
     /\ op'.name = "setAstVariableNodes" =>
          /\ DeletedExactly({})
          /\ variableNodes'[op'.arena] = op'.map
          /\ \A a \in Arena \ {op'.arena} : variableNodes'[a] = variableNodes[a]
          /\ UNCHANGED <<exists, allocatedNodes, backupFlag>>]_gcVars

\* A set that keeps one tracked node and drops another, on an arena that has
\* a variable registered.
C33_Witness ==
  /\ op.name = "setAllocatedAstNodes"
  /\ deleted # {}
  /\ allocatedNodes[op.arena] = op.nodes
  /\ op.nodes # {}
  /\ variableNodes[op.arena] # EmptyMap

====
